---------------------------- MODULE Spec2Model ----------------------------
(***************************************************************************)
(* A model of the content pipeline of connectorAgent (src/app.py):         *)
(*                                                                         *)
(*   SpecFilter   UniversalWebScraper._filter_page_content_for_ai, one     *)
(*                call, one step per category entry, fragment and exit;    *)
(*   SpecScrape   the hierarchical container passes of scrape_comprehensive*)
(*                on one parsed page;                                      *)
(*   SpecExtract  extract_endpoints_with_ai over the scraped pages, with   *)
(*                _extract_curls_from_page_with_ai and the LLM's replies.  *)
(*                                                                         *)
(* Texts are kept by their lengths: a text is [pad, core], pad the number  *)
(* of white-space characters around it and core the length of what         *)
(* str.strip() leaves.  A string built by the code (the digest, a section) *)
(* is the sequence of the pieces concatenated into it; each piece keeps    *)
(* its literal prefix and suffix, so a string's length is computed from    *)
(* what the code wrote into it.                                            *)
(***************************************************************************)
EXTENDS Integers, Sequences, FiniteSets, TLC

VARIABLES
    filt,                \* the frame of one _filter_page_content_for_ai call
    dom,                 \* the parsed page (soup) scrape_comprehensive works on
    visit,               \* position of the container passes in PassOrder(dom)
    extracted_elements,  \* app.py:620, the covered set of the page
    scraped,             \* page_data's container lists (app.py:553-568)
    raw_pages,           \* raw_data['pages'] handed to extract_endpoints_with_ai
    page_idx,            \* the page the loop of app.py:764 is at
    all_endpoints,       \* app.py:761
    llm_inputs,          \* app.py:762
    llm_calls,           \* the requests sent to client.chat.completions.create
    epc,                 \* "run", "returned" or "raised": how the call ended
    agent,               \* the frame of one autonomous_universal_agent call
    chat,                \* a ChatConnectorAgent and the requests it sent
    crawl                \* the page loop of scrape_comprehensive

vars == <<filt, dom, visit, extracted_elements, scraped,
          raw_pages, page_idx, all_endpoints, llm_inputs, llm_calls, epc,
          agent, chat, crawl>>

filterVars  == <<filt>>
scrapeVars  == <<dom, visit, extracted_elements, scraped>>
extractVars == <<raw_pages, page_idx, all_endpoints, llm_inputs, llm_calls, epc>>
agentVars   == <<agent>>
chatVars    == <<chat>>
crawlVars   == <<crawl>>

----------------------------------------------------------------------------
(* Bounds of the model.                                                    *)

\* fragments of one page_data handed to the filter
MaxFrags == 3

----------------------------------------------------------------------------
(* Texts and strings.                                                      *)

Text(pad, core) == [pad |-> pad, core |-> core]
EmptyText == Text(0, 0)

\* len(text)
TextLen(t) == t.pad + t.core

\* text.strip()
Strip(t) == Text(0, t.core)

\* the truth value of text.strip(): a non-empty string
NonBlank(t) == Strip(t).core > 0

\* A piece of a built string: prefix, text, suffix, and where the text came
\* from (the category's key in page_data and the record's index in its list;
\* idx is 0 for a literal).
Piece(cat, idx, pre, text, post) ==
    [cat |-> cat, idx |-> idx, pre |-> pre, text |-> text, post |-> post]

PieceLen(p) == Len(p.pre) + TextLen(p.text) + Len(p.post)

RECURSIVE StrLen(_)
\* len() of a built string
StrLen(s) == IF s = <<>> THEN 0 ELSE PieceLen(Head(s)) + StrLen(Tail(s))

\* str.lower() on the characters titles are made of
LowerChar(ch) ==
    CASE ch = "A" -> "a" [] ch = "B" -> "b" [] ch = "C" -> "c"
      [] ch = "I" -> "i" [] ch = "P" -> "p" [] ch = "T" -> "t"
      [] OTHER -> ch

Lower(s) == [k \in 1..Len(s) |-> LowerChar(s[k])]

\* sub in s, for strings given as tuples of characters
Contains(sub, s) ==
    \E k \in 0..(Len(s) - Len(sub)) : SubSeq(s, k + 1, k + Len(sub)) = sub

----------------------------------------------------------------------------
(* _filter_page_content_for_ai, app.py:802-970.                            *)

max_size == 20000

\* the threshold of the return statement, app.py:970
min_size == 100

skip_keywords ==
    { <<"p","r","i","v","a","c","y">>, <<"t","e","r","m","s">>,
      <<"a","b","o","u","t">>, <<"c","o","n","t","a","c","t">>,
      <<"c","a","r","e","e","r","s">>, <<"b","l","o","g">>,
      <<"s","h","o","w","c","a","s","e">> }

\* the priority blocks in the order the function runs them
CategoryOrder ==
    << "code_blocks", "tables", "headings", "lists", "paragraphs",
       "divs", "spans", "blockquotes", "sections" >>

\* the mutant of BlockOrder: the blocks follow the keys of the input
BlockOrderFromKeys(page_data) == page_data.keys

\* the order of the blocks for a page: the same for every input
BlockOrder(page_data) == CategoryOrder

\* the order scrape_comprehensive creates page_data's keys in
ScraperKeys ==
    << "headings", "code_blocks", "tables", "lists", "paragraphs",
       "divs", "spans", "blockquotes", "sections" >>

\* the literal "```" (the back quote is no character of a TLA+ string)
Fence == "'''"

SectionHeader(c) ==
    CASE c = "code_blocks" -> "## Code Examples:\n"
      [] c = "tables"      -> "## Tables:\n"
      [] c = "headings"    -> "## Headings:\n"
      [] c = "lists"       -> "## Lists:\n"
      [] c = "paragraphs"  -> "## Paragraphs:\n"
      [] c = "divs"        -> "## Divs:\n"
      [] c = "spans"       -> "## Spans:\n"
      [] c = "blockquotes" -> "## Notes:\n"
      [] c = "sections"    -> "## Sections:\n"

\* len(section) must exceed this for the section to be appended
SectionMin(c) == IF c = "code_blocks" THEN 20 ELSE 15

\* what follows the section when it is appended
SectionTail(c) == IF c \in {"headings", "spans"} THEN "\n" ELSE ""

RECURSIVE Hashes(_)
\* '#' * level
Hashes(n) == IF n <= 0 THEN "" ELSE "#" \o Hashes(n - 1)

\* the mutant of UsedText: the text is cut to 1000 characters, as the html
\* of a container is at app.py:631
UsedTextCut(c, item) ==
    LET t == IF c \in {"code_blocks", "tables"} THEN item.text ELSE Strip(item.text)
    IN  IF TextLen(t) <= 1000 THEN t ELSE Text(0, 1000)

\* the text the block puts into its addition: code blocks and tables use the
\* record's text as it is, the others strip it first
UsedText(c, item) ==
    IF c \in {"code_blocks", "tables"} THEN item.text ELSE Strip(item.text)

\* the f-string of the block
Addition(c, k, item) ==
    CASE c = "code_blocks" ->
           Piece(c, k, Fence \o item.tag \o "\n", UsedText(c, item), "\n" \o Fence \o "\n\n")
      [] c \in {"tables", "lists"} ->
           Piece(c, k, Fence \o "\n", UsedText(c, item), "\n" \o Fence \o "\n\n")
      [] c = "headings" ->
           Piece(c, k, Hashes(item.level) \o " ", UsedText(c, item), "\n")
      [] c \in {"paragraphs", "divs", "sections"} ->
           Piece(c, k, "", UsedText(c, item), "\n\n")
      [] c = "spans" ->
           Piece(c, k, "", UsedText(c, item), "\n")
      [] c = "blockquotes" ->
           Piece(c, k, "> ", UsedText(c, item), "\n\n")

\* the block's own size filter on the stripped text
UnderTextLimit(c, item) ==
    CASE c = "lists"      -> TextLen(Strip(item.text)) < 2000
      [] c = "paragraphs" -> TextLen(Strip(item.text)) < 800
      [] c = "divs"       -> TextLen(Strip(item.text)) < 1000
      [] c = "sections"   -> TextLen(Strip(item.text)) < 1500
      [] OTHER            -> TRUE

\* the record passes the block's tests on its text
Eligible(c, item) == NonBlank(item.text) /\ UnderTextLimit(c, item)

\* the mutant of Fits: the test forgets the addition
FitsIgnoringAddition(c, total, addition) ==
    c = "code_blocks" \/ total < max_size

\* the mutant of Fits: the code blocks are budgeted like the rest
FitsEveryCategory(c, total, addition) ==
    total + PieceLen(addition) < max_size

\* the budget test of the block; the code block has none
Fits(c, total, addition) ==
    c = "code_blocks" \/ total + PieceLen(addition) < max_size

\* the guard of the block: "if tables and total_size < max_size"
BlockRuns(c, items, total) ==
    items # <<>> /\ (c = "code_blocks" \/ total < max_size)

\* the frame at the call
FilterFrame(page_data) ==
    [ page_data |-> page_data, pc |-> "start", cat |-> 1, i |-> 0,
      section |-> <<>>, filtered_content |-> <<>>, total_size |-> 0,
      digest |-> <<>> ]

\* the mutant of StartStep: the title is not looked at
StartStepAnyTitle(f) ==
    LET title == f.page_data.title
        head == Piece("title", 0, "# ", Text(0, Len(title)), "\n\n") IN
    [f EXCEPT !.pc = "enter",
              !.filtered_content = <<head>>,
              !.total_size = PieceLen(head)]

\* app.py:804-814
StartStep(f) ==
    LET title == f.page_data.title IN
    IF \E keyword \in skip_keywords : Contains(keyword, Lower(title))
    THEN [f EXCEPT !.pc = "done", !.digest = <<>>]
    ELSE LET head == Piece("title", 0, "# ", Text(0, Len(title)), "\n\n") IN
         [f EXCEPT !.pc = "enter",
                   !.filtered_content = <<head>>,
                   !.total_size = PieceLen(head)]

\* the next block, or the end of the function
NextBlock(f) ==
    IF f.cat < Len(BlockOrder(f.page_data))
    THEN [f EXCEPT !.pc = "enter", !.cat = f.cat + 1, !.i = 0, !.section = <<>>]
    ELSE [f EXCEPT !.pc = "return", !.i = 0, !.section = <<>>]

\* "tables = page_data.get('tables', []); if tables and ...: section = ..."
EnterStep(f) ==
    LET c == BlockOrder(f.page_data)[f.cat] IN
    IF BlockRuns(c, f.page_data[c], f.total_size)
    THEN [f EXCEPT !.pc = "items", !.i = 1,
                   !.section = <<Piece(c, 0, SectionHeader(c), EmptyText, "")>>]
    ELSE NextBlock(f)

\* the mutant of FragmentStep: the text of the record is stripped in place
FragmentStepInPlace(f) ==
    LET c        == BlockOrder(f.page_data)[f.cat]
        item     == f.page_data[c][f.i]
        addition == Addition(c, f.i, item)
        g        == IF Eligible(c, item) /\ Fits(c, f.total_size, addition)
                    THEN [f EXCEPT !.section = Append(f.section, addition),
                                   !.total_size = f.total_size + PieceLen(addition),
                                   !.page_data[c][f.i].text = Strip(item.text)]
                    ELSE f
    IN  IF f.i < Len(f.page_data[c])
        THEN [g EXCEPT !.i = f.i + 1]
        ELSE [g EXCEPT !.pc = "close"]

\* one turn of the block's for loop
FragmentStep(f) ==
    LET c        == BlockOrder(f.page_data)[f.cat]
        item     == f.page_data[c][f.i]
        addition == Addition(c, f.i, item)
        g        == IF Eligible(c, item) /\ Fits(c, f.total_size, addition)
                    THEN [f EXCEPT !.section = Append(f.section, addition),
                                   !.total_size = f.total_size + PieceLen(addition)]
                    ELSE f
    IN  IF f.i < Len(f.page_data[c])
        THEN [g EXCEPT !.i = f.i + 1]
        ELSE [g EXCEPT !.pc = "close"]

\* "if len(section) > 15: filtered_content += section"
CloseStep(f) ==
    LET c == BlockOrder(f.page_data)[f.cat]
        tail == IF SectionTail(c) = "" THEN <<>>
                ELSE <<Piece(c, 0, SectionTail(c), EmptyText, "")>>
    IN  IF StrLen(f.section) > SectionMin(c)
        THEN NextBlock([f EXCEPT !.filtered_content = f.filtered_content \o f.section \o tail])
        ELSE NextBlock(f)

\* the trailing marker; its idx field holds the number written into it
SizeMarker(n) ==
    Piece("marker", n, "\n<!-- Content Size: " \o ToString(n) \o " characters -->\n",
          EmptyText, "")

\* the mutant of Returned: no threshold
ReturnedAlways(content, total) == content

\* "return filtered_content if total_size > 100 else ''"
Returned(content, total) == IF total > min_size THEN content ELSE <<>>

\* the mutant of ReturnStep: the marker holds the length of the text
ReturnStepTextLength(f) ==
    LET content == Append(f.filtered_content,
                          SizeMarker(StrLen(f.filtered_content))) IN
    [f EXCEPT !.pc = "done", !.filtered_content = content,
              !.digest = Returned(content, f.total_size)]

\* app.py:967-970
ReturnStep(f) ==
    LET content == Append(f.filtered_content, SizeMarker(f.total_size)) IN
    [f EXCEPT !.pc = "done", !.filtered_content = content,
              !.digest = Returned(content, f.total_size)]

FilterStep(f) ==
    CASE f.pc = "start"  -> StartStep(f)
      [] f.pc = "enter"  -> EnterStep(f)
      [] f.pc = "items"  -> FragmentStep(f)
      [] f.pc = "close"  -> CloseStep(f)
      [] f.pc = "return" -> ReturnStep(f)
      [] OTHER           -> f

RECURSIVE RunFilter(_)
\* the whole call
RunFilter(f) == IF f.pc = "done" THEN f ELSE RunFilter(FilterStep(f))

\* _filter_page_content_for_ai(page_data)
FilterPageContent(page_data) == RunFilter(FilterFrame(page_data)).digest

----------------------------------------------------------------------------
(* The page_data values the filter is run on.                              *)

\* blank; a short padded text; one that brings a page to the threshold of
\* 100; one that brings a page to the ceiling of 20000
TextChoices == { Text(2, 0), Text(1, 3), Text(0, 91), Text(0, 19983) }

TitleChoices == { <<"A","P","I">>, <<"B","l","o","g">> }

KeyOrders == { ScraperKeys, CategoryOrder }

ItemChoices(c) ==
    CASE c = "code_blocks" -> [text : TextChoices, tag : {"code", "pre"}]
      [] c = "headings"    -> [text : TextChoices, level : {1, 2}]
      [] OTHER             -> [text : TextChoices]

\* a record and the list it is in
Frags == UNION { {<<k, item>> : item \in ItemChoices(CategoryOrder[k])}
                 : k \in 1..Len(CategoryOrder) }

\* the records of a page of n records, in the order of their lists
FragSeqs(n) ==
    { s \in [1..n -> Frags] :
        \A a, b \in DOMAIN s : a < b => s[a][1] <= s[b][1] }

RECURSIVE ListOf(_, _)
\* the records of list k, in order
ListOf(s, k) ==
    IF s = <<>> THEN <<>>
    ELSE IF Head(s)[1] = k THEN <<Head(s)[2]>> \o ListOf(Tail(s), k)
    ELSE ListOf(Tail(s), k)

PageData(title, keys, s) ==
    [ title |-> title, keys |-> keys,
      code_blocks |-> ListOf(s, 1), tables |-> ListOf(s, 2),
      headings |-> ListOf(s, 3), lists |-> ListOf(s, 4),
      paragraphs |-> ListOf(s, 5), divs |-> ListOf(s, 6),
      spans |-> ListOf(s, 7), blockquotes |-> ListOf(s, 8),
      sections |-> ListOf(s, 9) ]

FilterInputs(n) ==
    { PageData(t, ks, s) : t \in TitleChoices, ks \in KeyOrders, s \in FragSeqs(n) }

----------------------------------------------------------------------------
(* SpecFilter: one call of the filter, step by step.                       *)

FilterStart ==
    /\ filt.pc = "start" /\ filt' = StartStep(filt)
    /\ UNCHANGED <<scrapeVars, extractVars, agentVars, chatVars, crawlVars>>

EnterCategory ==
    /\ filt.pc = "enter" /\ filt' = EnterStep(filt)
    /\ UNCHANGED <<scrapeVars, extractVars, agentVars, chatVars, crawlVars>>

AppendFragment ==
    /\ filt.pc = "items" /\ filt' = FragmentStep(filt)
    /\ UNCHANGED <<scrapeVars, extractVars, agentVars, chatVars, crawlVars>>

CloseCategory ==
    /\ filt.pc = "close" /\ filt' = CloseStep(filt)
    /\ UNCHANGED <<scrapeVars, extractVars, agentVars, chatVars, crawlVars>>

FilterReturn ==
    /\ filt.pc = "return" /\ filt' = ReturnStep(filt)
    /\ UNCHANGED <<scrapeVars, extractVars, agentVars, chatVars, crawlVars>>

IdleScrape ==
    /\ dom = <<>> /\ visit = 0 /\ extracted_elements = {} /\ scraped = <<>>

IdleExtract ==
    /\ raw_pages = <<>> /\ page_idx = 0 /\ all_endpoints = <<>>
    /\ llm_inputs = <<>> /\ llm_calls = <<>> /\ epc = "idle"

IdleFilter == filt = FilterFrame(PageData(<<>>, CategoryOrder, <<>>))

IdleAgent == agent = [pc |-> "idle"]

IdleChat == chat = [pc |-> "idle"]

IdleCrawl == crawl = [pc |-> "idle"]

InitFilter ==
    /\ \E n \in 0..MaxFrags : \E p \in FilterInputs(n) : filt = FilterFrame(p)
    /\ IdleScrape /\ IdleExtract /\ IdleAgent /\ IdleChat /\ IdleCrawl

NextFilter ==
    \/ FilterStart
    \/ EnterCategory
    \/ AppendFragment
    \/ CloseCategory
    \/ FilterReturn

SpecFilter == InitFilter /\ [][NextFilter]_vars


----------------------------------------------------------------------------
(* The parsed page.  A node is [tag, parent, text, cls, kw]: parent is the  *)
(* index of the enclosing node (0: none), text the length of               *)
(* get_text().strip(), which includes the text of the descendants, cls     *)
(* the class attribute ("none", "api": a class with one of the API terms,  *)
(* "other"), kw whether the text has one of the API keywords of a span.    *)
(* The nodes stand in document order, the order of soup.find_all().        *)

Node(tag, parent, text, cls, kw) ==
    [tag |-> tag, parent |-> parent, text |-> text, cls |-> cls, kw |-> kw]

RECURSIVE Ancestors(_, _)
Ancestors(d, n) ==
    IF d[n].parent = 0 THEN {}
    ELSE {d[n].parent} \cup Ancestors(d, d[n].parent)

\* node.find_all(): every descendant
Descendants(d, n) == { m \in DOMAIN d : n \in Ancestors(d, m) }

Children(d, n) == { m \in DOMAIN d : d[m].parent = n }

RECURSIVE SortedSeq(_)
\* the members of a set of indices in document order
SortedSeq(S) ==
    IF S = {} THEN <<>>
    ELSE LET m == CHOOSE x \in S : \A y \in S : x <= y
         IN  <<m>> \o SortedSeq(S \ {m})

\* the class attribute as written in the markup
ClassAttr(cls) ==
    CASE cls = "api"   -> " class=\"endpoint\""
      [] cls = "other" -> " class=\"nav\""
      [] OTHER         -> ""

RECURSIVE Markup(_, _)
\* what two nodes are compared by: bs4's Tag.__eq__ holds of two tags with
\* the same name, attributes and contents, and Tag.__hash__ hashes str(tag)
Markup(d, n) ==
    LET kids == SortedSeq(Children(d, n)) IN
    << d[n].tag, d[n].cls, d[n].text, d[n].kw,
       [k \in DOMAIN kids |-> Markup(d, kids[k])] >>

RECURSIVE TextOfAll(_, _)
TextOfAll(d, S) ==
    IF S = {} THEN 0
    ELSE LET m == CHOOSE x \in S : TRUE
         IN  d[m].text + TextOfAll(d, S \ {m})

RECURSIVE MarkupLen(_, _), MarkupLenAll(_, _)
\* len(str(node))
MarkupLen(d, n) ==
    Len("<" \o d[n].tag \o ClassAttr(d[n].cls) \o ">")
    + (d[n].text - TextOfAll(d, Children(d, n)))
    + MarkupLenAll(d, Children(d, n))
    + Len("</" \o d[n].tag \o ">")
MarkupLenAll(d, S) ==
    IF S = {} THEN 0
    ELSE LET m == CHOOSE x \in S : TRUE
         IN  MarkupLen(d, m) + MarkupLenAll(d, S \ {m})

\* str(node)[:1000]
HtmlCut(d, n) == IF MarkupLen(d, n) <= 1000 THEN MarkupLen(d, n) ELSE 1000

\* "node in extracted_elements"
IsIn(d, n, S) == \E m \in S : Markup(d, m) = Markup(d, n)

\* extracted_elements.add(node)
SetAdd(d, S, n) == IF IsIn(d, n, S) THEN S ELSE S \cup {n}

RECURSIVE AddEach(_, _, _)
\* "for child in node.find_all(): extracted_elements.add(child)"
AddEach(d, S, ns) ==
    IF ns = <<>> THEN S ELSE AddEach(d, SetAdd(d, S, Head(ns)), Tail(ns))

----------------------------------------------------------------------------
(* The hierarchical extraction of scrape_comprehensive, app.py:613-720.    *)

\* the passes in their order, each over the nodes of its tags
PassTags == << {"section", "article"}, {"div"}, {"p"}, {"blockquote"}, {"span"} >>

RECURSIVE PassOrderFrom(_, _)
PassOrderFrom(d, k) ==
    IF k > Len(PassTags) THEN <<>>
    ELSE SortedSeq({ n \in DOMAIN d : d[n].tag \in PassTags[k] })
         \o PassOrderFrom(d, k + 1)

\* the nodes in the order the passes come to them
PassOrder(d) == PassOrderFrom(d, 1)

\* the list of page_data a tag's records go to
ListOfTag(tag) ==
    CASE tag \in {"section", "article"} -> "sections"
      [] tag = "div"                    -> "divs"
      [] tag = "p"                      -> "paragraphs"
      [] tag = "blockquote"             -> "blockquotes"
      [] tag = "span"                   -> "spans"

\* the size window of a list: len(text) > lo and len(text) < hi; the
\* blockquote's text must only be non-empty
Window(list) ==
    CASE list = "sections"    -> [lo |-> 50, hi |-> 1500]
      [] list = "divs"        -> [lo |-> 10, hi |-> 1000]
      [] list = "paragraphs"  -> [lo |-> 10, hi |-> 800]
      [] list = "blockquotes" -> [lo |-> 0,  hi |-> 1200]
      [] list = "spans"       -> [lo |-> 2,  hi |-> 50]

\* the mutant of InWindow: the upper limit is not tested
InWindowNoMax(list, text) == text > 0 /\ text > Window(list).lo

\* the size check of a pass
InWindow(list, text) ==
    text > 0 /\ text > Window(list).lo /\ text < Window(list).hi

\* the mutant of DivClassOk: a div without a class is not taken
DivClassOkApiOnly(cls) == cls = "api"

\* "any(api_term in ' '.join(div_class).lower() ...) or not div_class"
DivClassOk(cls) == cls = "api" \/ cls = "none"

\* the passes that skip a covered node: the section pass does not
SkipsCovered(tag) == tag \in {"div", "p", "blockquote", "span"}

\* the mutant of Wanted: a span is taken without a keyword
WantedAnySpan(d, n) ==
    CASE d[n].tag = "div"  -> DivClassOk(d[n].cls)
      [] OTHER             -> TRUE

\* what a pass asks of a node besides its size
Wanted(d, n) ==
    CASE d[n].tag = "div"  -> DivClassOk(d[n].cls)
      [] d[n].tag = "span" -> d[n].kw
      [] OTHER             -> TRUE

\* the record appended to page_data; node is where it came from
Record(d, n) ==
    [ node |-> n, text |-> d[n].text, tag |-> d[n].tag, class |-> d[n].cls,
      html |-> IF d[n].tag \in {"section", "article", "div"}
               THEN HtmlCut(d, n) ELSE MarkupLen(d, n) ]

\* the mutant of CoverAfter: the children are marked whether or not the
\* container was extracted
CoverAlways(d, S, n, emitted) ==
    LET kids == AddEach(d, S, SortedSeq(Descendants(d, n))) IN
    CASE d[n].tag \in {"section", "article", "div"} -> kids
      [] d[n].tag \in {"p", "blockquote"}           -> SetAdd(d, kids, n)
      [] d[n].tag = "span"                          -> SetAdd(d, S, n)

\* the marking after a visit: the descendants of an extracted container,
\* and the paragraph, blockquote or span itself
CoverAfter(d, S, n, emitted) ==
    LET kids == AddEach(d, S, SortedSeq(Descendants(d, n))) IN
    IF ~emitted THEN S
    ELSE CASE d[n].tag \in {"section", "article", "div"} -> kids
           [] d[n].tag \in {"p", "blockquote"}           -> SetAdd(d, kids, n)
           [] d[n].tag = "span"                          -> SetAdd(d, S, n)

\* the node is extracted by its pass
Extracts(d, n, S) ==
    /\ ~(SkipsCovered(d[n].tag) /\ IsIn(d, n, S))
    /\ Wanted(d, n)
    /\ InWindow(ListOfTag(d[n].tag), d[n].text)

\* the node the passes come to next
AtNode == PassOrder(dom)[visit + 1]

\* the running pass is the one over these tags
InPass(tags) == visit < Len(PassOrder(dom)) /\ dom[AtNode].tag \in tags

\* one turn of a pass's loop
VisitNode ==
    /\ LET n       == AtNode
           list    == ListOfTag(dom[n].tag)
           emitted == Extracts(dom, n, extracted_elements)
       IN  /\ scraped' = IF emitted
                         THEN [scraped EXCEPT ![list] = Append(@, Record(dom, n))]
                         ELSE scraped
           /\ extracted_elements' = CoverAfter(dom, extracted_elements, n, emitted)
    /\ visit' = visit + 1
    /\ UNCHANGED <<dom, filterVars, extractVars, agentVars, chatVars, crawlVars>>

VisitSection ==
    /\ InPass({"section", "article"})
    /\ VisitNode

VisitDiv ==
    /\ InPass({"div"})
    /\ VisitNode

VisitParagraph ==
    /\ InPass({"p"})
    /\ VisitNode

VisitBlockquote ==
    /\ InPass({"blockquote"})
    /\ VisitNode

VisitSpan ==
    /\ InPass({"span"})
    /\ VisitNode

----------------------------------------------------------------------------
(* The pages the passes are run on.                                        *)

\* nodes of a page
MaxNodes == 3

\* tag, text length, class and keyword of a node
NodeKinds ==
    {<<"section", t, "none", FALSE>> : t \in {50, 51, 1200, 1499, 1500, 3000}}
    \cup {<<"article", t, "none", FALSE>> : t \in {1200, 3000}}
    \cup {<<"div", t, "none", FALSE>> : t \in {10, 11, 200, 999, 1000}}
    \cup {<<"div", t, "api", FALSE>> : t \in {200, 1000}}
    \cup {<<"div", 200, "other", FALSE>>}
    \cup {<<"p", t, "none", FALSE>> : t \in {10, 11, 50, 799, 800, 2000}}
    \cup {<<"blockquote", t, "none", FALSE>> : t \in {0, 1, 1199, 1200}}
    \cup {<<"span", t, "none", TRUE>> : t \in {3, 49, 50}}
    \cup {<<"span", 3, "none", FALSE>>}

\* the parents of n nodes in document order: a node is a child of the node
\* before it, of one of that node's ancestors, or of none
ParentVectors(n) ==
    { pv \in [1..n -> 0..(n - 1)] :
        /\ pv[1] = 0
        /\ \A k \in 2..n :
              \/ pv[k] = 0
              \/ pv[k] = k - 1
              \/ \E a \in 1..(k - 2) :
                    /\ pv[k] = a
                    /\ \A j \in (a + 1)..(k - 1) : pv[j] >= a }

DomOf(kinds, pv) ==
    [k \in DOMAIN kinds |->
        Node(kinds[k][1], pv[k], kinds[k][2], kinds[k][3], kinds[k][4])]

\* the text of a node holds the text of its children
WellFormed(d) ==
    \A n \in DOMAIN d : d[n].text >= TextOfAll(d, Children(d, n))

\* the pages of n nodes
DomInputs(n) ==
    { d \in { DomOf(kinds, pv) : kinds \in [1..n -> NodeKinds],
                                 pv \in ParentVectors(n) } :
        WellFormed(d) }

EmptyLists ==
    [ sections |-> <<>>, divs |-> <<>>, paragraphs |-> <<>>,
      blockquotes |-> <<>>, spans |-> <<>> ]

InitScrape ==
    /\ \E n \in 1..MaxNodes : dom \in DomInputs(n)
    /\ visit = 0
    /\ extracted_elements = {}
    /\ scraped = EmptyLists
    /\ IdleFilter /\ IdleExtract /\ IdleAgent /\ IdleChat /\ IdleCrawl

NextScrape ==
    \/ VisitSection
    \/ VisitDiv
    \/ VisitParagraph
    \/ VisitBlockquote
    \/ VisitSpan

SpecScrape == InitScrape /\ [][NextScrape]_vars

----------------------------------------------------------------------------
(* The page loop of scrape_comprehensive, app.py:515-755.                  *)
(*                                                                         *)
(* crawl is the frame of the call: urls_to_visit, visited_urls,            *)
(* page_count, scraped_pages (in the order of their insertion) and         *)
(* current_url; site is the web site, max_pages the argument, fetched the  *)
(* urls requested so far, in order.  The passes of the current page run    *)
(* on dom, visit, extracted_elements and scraped.                          *)

RECURSIVE RunPasses(_, _, _, _)
\* app.py:620-720 on one page: the passes from the k-th node of their order
\* on, with the covered set S and the lists made so far
RunPasses(d, k, S, lists) ==
    IF k > Len(PassOrder(d)) THEN [containers |-> lists, covered |-> S]
    ELSE LET n == PassOrder(d)[k]
             emitted == Extracts(d, n, S)
         IN  RunPasses(d, k + 1, CoverAfter(d, S, n, emitted),
                       IF emitted
                       THEN [lists EXCEPT ![ListOfTag(d[n].tag)] =
                                             Append(@, Record(d, n))]
                       ELSE lists)

\* pages of a site
MaxSitePages == 3

\* the pages of the sites: a section with a paragraph, the same paragraph
\* alone, a div with a keyword span, the same span alone, an oversized
\* section with the paragraph
CrawlDoms ==
    { << Node("section", 0, 1200, "none", FALSE), Node("p", 1, 50, "none", FALSE) >>,
      << Node("p", 0, 50, "none", FALSE) >>,
      << Node("div", 0, 200, "none", FALSE), Node("span", 1, 3, "none", TRUE) >>,
      << Node("span", 0, 3, "none", TRUE), Node("blockquote", 0, 1, "none", FALSE) >>,
      << Node("section", 0, 3000, "none", FALSE), Node("p", 1, 50, "none", FALSE) >> }

\* the links of the pages of a site of n pages: none, each page to itself
\* and to the next one, each page to every page
LinkMaps(n) ==
    { [u \in 1..n |-> {}],
      [u \in 1..n |-> {u} \cup ({u + 1} \cap (1..n))],
      [u \in 1..n |-> 1..n] }

\* what the urls of a site of n urls are: pages of the base url's host, or
\* the last one a page of another host or a file (.pdf, .zip, ...)
UrlKinds(n) ==
    { [u \in 1..n |-> IF u = n /\ n > 1 THEN k ELSE "page"] :
        k \in {"page", "other_host", "file"} }

\* a site of n urls; url 1 is base_url
Sites(n) ==
    { [doms |-> d, links |-> l, kinds |-> k] :
        d \in [1..n -> CrawlDoms], l \in LinkMaps(n), k \in UrlKinds(n) }

\* app.py:728-730: the test of a link
Followed(site, visited_urls, url) ==
    /\ site.kinds[url] = "page"
    /\ url \notin visited_urls

\* app.py:522-525
CrawlFrame(site, max_pages) ==
    [ pc |-> "loop", site |-> site, max_pages |-> max_pages,
      urls_to_visit |-> {1}, visited_urls |-> {}, scraped_pages |-> <<>>,
      page_count |-> 0, current_url |-> 0, fetched |-> <<>> ]

\* the mutant of Looping: the pages are not counted
LoopingUncounted ==
    /\ crawl.pc = "loop"
    /\ crawl.urls_to_visit # {}

\* app.py:527: the test of the while loop
Looping ==
    /\ crawl.pc = "loop"
    /\ crawl.urls_to_visit # {}
    /\ crawl.page_count < crawl.max_pages

\* app.py:528-531: a url that was visited is dropped
PopVisited ==
    /\ Looping
    /\ \E url \in crawl.urls_to_visit \cap crawl.visited_urls :
          crawl' = [crawl EXCEPT !.urls_to_visit = @ \ {url},
                                 !.current_url = url]
    /\ UNCHANGED <<scrapeVars, filterVars, extractVars, agentVars, chatVars>>

\* app.py:533-546, 741-743: the page is counted, the fetch raises
FetchFails ==
    /\ Looping
    /\ \E url \in crawl.urls_to_visit \ crawl.visited_urls :
          crawl' = [crawl EXCEPT !.urls_to_visit = @ \ {url},
                                 !.current_url = url,
                                 !.page_count = @ + 1,
                                 !.fetched = Append(@, url)]
    /\ UNCHANGED <<scrapeVars, filterVars, extractVars, agentVars, chatVars>>

\* the mutant of StartPage: line 620 stands before the while loop
StartPageSetKept ==
    /\ Looping
    /\ \E url \in crawl.urls_to_visit \ crawl.visited_urls :
          /\ crawl' = [crawl EXCEPT !.urls_to_visit = @ \ {url},
                                    !.current_url = url,
                                    !.page_count = @ + 1,
                                    !.fetched = Append(@, url),
                                    !.pc = "passes"]
          /\ dom' = crawl.site.doms[url]
    /\ visit' = 0
    /\ scraped' = EmptyLists
    /\ UNCHANGED <<extracted_elements, filterVars, extractVars, agentVars, chatVars>>

\* app.py:528-620: the page is counted, fetched and parsed, page_data is
\* made and extracted_elements is a new set
StartPage ==
    /\ Looping
    /\ \E url \in crawl.urls_to_visit \ crawl.visited_urls :
          /\ crawl' = [crawl EXCEPT !.urls_to_visit = @ \ {url},
                                    !.current_url = url,
                                    !.page_count = @ + 1,
                                    !.fetched = Append(@, url),
                                    !.pc = "passes"]
          /\ dom' = crawl.site.doms[url]
    /\ visit' = 0
    /\ scraped' = EmptyLists
    /\ extracted_elements' = {}
    /\ UNCHANGED <<filterVars, extractVars, agentVars, chatVars>>

\* app.py:722-735: the links not yet visited are added, the page is stored
FinishPage ==
    /\ crawl.pc = "passes"
    /\ visit = Len(PassOrder(dom))
    /\ LET url == crawl.current_url
           links == { l \in crawl.site.links[url] :
                        Followed(crawl.site, crawl.visited_urls, l) }
       IN  crawl' = [crawl EXCEPT
                       !.urls_to_visit = @ \cup links,
                       !.scraped_pages =
                          Append(@, [url |-> url, containers |-> scraped,
                                     links |-> links]),
                       !.visited_urls = @ \cup {url},
                       !.pc = "loop"]
    /\ UNCHANGED <<scrapeVars, filterVars, extractVars, agentVars, chatVars>>

\* app.py:745-755
ReturnRawData ==
    /\ crawl.pc = "loop"
    /\ ~Looping
    /\ crawl' = [crawl EXCEPT !.pc = "done"]
    /\ UNCHANGED <<scrapeVars, filterVars, extractVars, agentVars, chatVars>>

InitCrawl ==
    /\ \E n \in 1..MaxSitePages : \E site \in Sites(n) :
          \E max_pages \in 1..(n + 1) : crawl = CrawlFrame(site, max_pages)
    /\ dom = <<>> /\ visit = 0 /\ extracted_elements = {} /\ scraped = EmptyLists
    /\ IdleFilter /\ IdleExtract /\ IdleAgent /\ IdleChat

NextCrawl ==
    \/ PopVisited
    \/ FetchFails
    \/ StartPage
    \/ VisitSection
    \/ VisitDiv
    \/ VisitParagraph
    \/ VisitBlockquote
    \/ VisitSpan
    \/ FinishPage
    \/ ReturnRawData

SpecCrawl == InitCrawl /\ [][NextCrawl]_vars

\* the call runs on: each statement of the loop is followed by the next
FairCrawl == SpecCrawl /\ WF_vars(NextCrawl)

----------------------------------------------------------------------------
(* extract_endpoints_with_ai, app.py:757-800, and                          *)
(* _extract_curls_from_page_with_ai, app.py:1052-1121.                     *)
(*                                                                         *)
(* raw_data['pages'] is a dict keyed by url: the pages stand in the order  *)
(* of insertion and a page's url is its position.  The reply of the LLM is *)
(* the input of a page's step.  A reply is                                 *)
(*   [kind |-> "api_error"]    client.chat.completions.create raised,      *)
(*   [kind |-> "no_content"]   message.content is None,                    *)
(*   [kind |-> "text", wrap, body]   a text: body is the JSON document in  *)
(*       it ("invalid": none), wrap what stands around the document.       *)
(* A JSON document is [type, items]; the items of a list are               *)
(* [dict, name, curl]: whether the item is an object, whether it has the   *)
(* key 'name', and its 'curl' ("absent", "empty" or "set").                *)

\* pages handed to one call
MaxPages == 2

\* items of a list the LLM returns
MaxItems == 2

CurlItem(dict, name, curl) == [dict |-> dict, name |-> name, curl |-> curl]

CurlItems ==
    { CurlItem(TRUE, TRUE, "set"),      \* {"name": .., "curl": ..}
      CurlItem(TRUE, FALSE, "set"),     \* {"curl": ..}
      CurlItem(TRUE, TRUE, "absent"),   \* {"name": ..}
      CurlItem(TRUE, TRUE, "empty"),    \* {"name": .., "curl": ""}
      CurlItem(TRUE, FALSE, "absent"),  \* {}
      CurlItem(FALSE, FALSE, "absent")  \* "text", 1, null
    }

JsonValue(type, items) == [type |-> type, items |-> items]

\* the lists of n items
JsonLists(n) == { JsonValue("list", s) : s \in [1..n -> CurlItems] }

\* what is not a list; "invalid" stands for a text json.loads rejects
JsonOthers ==
    { JsonValue(t, <<>>) :
        t \in {"invalid", "null", "number", "object", "empty_object",
               "string", "empty_string"} }

Wraps == {"bare", "json_fence", "fence", "prose"}

TextReply(wrap, body) == [kind |-> "text", wrap |-> wrap, body |-> body]

\* the replies that hold no list of items
PlainReplies ==
    { [kind |-> "api_error"], [kind |-> "no_content"] }
    \cup { TextReply(w, b) : w \in Wraps, b \in JsonOthers }

\* the replies with a list of n items
ListReplies(n) == { TextReply(w, b) : w \in Wraps, b \in JsonLists(n) }

\* app.py:1102-1107: the text between the fences if there are fences, the
\* whole text otherwise, is given to json.loads; text around a document
\* that no fence separates from it makes the whole invalid
Loaded(reply) ==
    IF reply.wrap = "prose" THEN JsonValue("invalid", <<>>) ELSE reply.body

\* "for item in curl_data" can run: lists, strings and objects iterate
Iterable(v) ==
    v.type \in {"list", "object", "empty_object", "string", "empty_string"}

\* what the loop "for item in curl_data: item['source_page'] = page_url"
\* meets: the items of a list, the keys of an object, the characters of a
\* string; a key and a character are no objects
LoopItems(v) ==
    CASE v.type = "list" -> v.items
      [] v.type \in {"object", "string"} -> <<CurlItem(FALSE, FALSE, "absent")>>
      [] OTHER -> <<>>

\* item['source_page'] = page_url
Tagged(item, page_url) ==
    [name |-> item.name, curl |-> item.curl, source_page |-> page_url]

\* _extract_curls_from_page_with_ai: the value it returns, as the sequence
\* the caller's loop runs over
ExtractCurlsFromPage(reply, page_url) ==
    IF reply.kind # "text" THEN <<>>                     \* except Exception
    ELSE LET curl_data == Loaded(reply) IN
         IF curl_data.type = "invalid" THEN <<>>          \* JSONDecodeError
         ELSE IF ~Iterable(curl_data) THEN <<>>           \* TypeError
         ELSE IF \E k \in DOMAIN LoopItems(curl_data) :
                     ~LoopItems(curl_data)[k].dict THEN <<>>  \* TypeError
         ELSE [k \in DOMAIN LoopItems(curl_data) |->
                  Tagged(LoopItems(curl_data)[k], page_url)]

\* curl_item['name'] of app.py:791 returns; it raises KeyError otherwise
NameLogged(curl_item) == curl_item.name

\* "if curl_item and curl_item.get('curl')"
Kept(curl_item) == curl_item.curl = "set"

RECURSIVE AddCurls(_, _)
\* app.py:788-791: the loop over page_curls; raised tells that it ended in
\* the KeyError of line 791, after the append of line 790
AddCurls(endpoints, page_curls) ==
    IF page_curls = <<>> THEN [endpoints |-> endpoints, raised |-> FALSE]
    ELSE LET curl_item == Head(page_curls) IN
         IF ~Kept(curl_item) THEN AddCurls(endpoints, Tail(page_curls))
         ELSE IF NameLogged(curl_item)
              THEN AddCurls(Append(endpoints, curl_item), Tail(page_curls))
              ELSE [endpoints |-> Append(endpoints, curl_item), raised |-> TRUE]

\* "if not filtered_content.strip()": the digest has no character that is
\* not white space
Blank(content) ==
    \A j \in DOMAIN content :
        /\ content[j].text.core = 0
        /\ content[j].pre \in {"", "\n", "\n\n"}
        /\ content[j].post \in {"", "\n", "\n\n"}

\* app.py:775-781, without the timestamp
LlmInput(url, page_data, filtered_content) ==
    [ url |-> url, title |-> page_data.title,
      filtered_content |-> filtered_content,
      content_length |-> StrLen(filtered_content) ]

\* the loop is at a page
AtPage ==
    /\ epc = "run"
    /\ page_idx < Len(raw_pages)

\* app.py:768-772: the digest is empty, "continue"
SkipPage ==
    /\ AtPage
    /\ Blank(FilterPageContent(raw_pages[page_idx + 1]))
    /\ page_idx' = page_idx + 1
    /\ UNCHANGED <<raw_pages, all_endpoints, llm_inputs, llm_calls, epc>>
    /\ UNCHANGED <<filterVars, scrapeVars, agentVars, chatVars, crawlVars>>

\* app.py:768-791 for a page with a digest: the llm_input, the call, and
\* the loop over what the call returned
ExtractPage ==
    /\ AtPage
    /\ LET url == page_idx + 1
           page_data == raw_pages[url]
           filtered_content == FilterPageContent(page_data)
       IN  /\ ~Blank(filtered_content)
           /\ \E reply \in PlainReplies \cup UNION { ListReplies(n) : n \in 0..MaxItems } :
                LET page_curls == ExtractCurlsFromPage(reply, url)
                    added == AddCurls(all_endpoints, page_curls)
                IN  /\ llm_inputs' = Append(llm_inputs,
                                            LlmInput(url, page_data, filtered_content))
                    /\ llm_calls' = Append(llm_calls,
                                           [url |-> url,
                                            page_content |-> filtered_content,
                                            reply |-> reply])
                    /\ all_endpoints' = added.endpoints
                    /\ IF added.raised
                       THEN epc' = "raised" /\ page_idx' = page_idx
                       ELSE epc' = epc /\ page_idx' = page_idx + 1
    /\ UNCHANGED raw_pages
    /\ UNCHANGED <<filterVars, scrapeVars, agentVars, chatVars, crawlVars>>

\* app.py:794-800: the loop is over, the lists are saved and returned
ReturnEndpoints ==
    /\ epc = "run"
    /\ page_idx = Len(raw_pages)
    /\ epc' = "returned"
    /\ UNCHANGED <<raw_pages, page_idx, all_endpoints, llm_inputs, llm_calls>>
    /\ UNCHANGED <<filterVars, scrapeVars, agentVars, chatVars, crawlVars>>

\* the pages of a call: a page with a title only, one under the threshold
\* (99), one at it (100), one over it (101), one whose only content is a
\* code block, one with a title the filter skips
ExtractPages ==
    { PageData(<<"A","P","I">>, ScraperKeys, <<>>),
      PageData(<<"A","P","I">>, ScraperKeys, << <<5, [text |-> Text(0, 90)]>> >>),
      PageData(<<"A","P","I">>, ScraperKeys, << <<5, [text |-> Text(0, 91)]>> >>),
      PageData(<<"A","P","I">>, ScraperKeys, << <<5, [text |-> Text(0, 92)]>> >>),
      PageData(<<"A","P","I">>, ScraperKeys,
               << <<1, [text |-> Text(0, 91), tag |-> "code"]>> >>),
      PageData(<<"B","l","o","g">>, ScraperKeys, << <<5, [text |-> Text(0, 92)]>> >>) }

InitExtract ==
    /\ \E n \in 0..MaxPages : raw_pages \in [1..n -> ExtractPages]
    /\ page_idx = 0
    /\ all_endpoints = <<>>
    /\ llm_inputs = <<>>
    /\ llm_calls = <<>>
    /\ epc = "run"
    /\ IdleFilter /\ IdleScrape /\ IdleAgent /\ IdleChat /\ IdleCrawl

NextExtract ==
    \/ SkipPage
    \/ ExtractPage
    \/ ReturnEndpoints

SpecExtract == InitExtract /\ [][NextExtract]_vars

----------------------------------------------------------------------------
(* cURL commands.  A command is kept by the parts str.split(' ') gives     *)
(* (the URL argument stands as the part "URL", a header argument as        *)
(* "HDR"), the quotes around its URL, the URL and the names of its         *)
(* headers.  A URL is [scheme, host, path, query]: host is "static",       *)
(* "auth" (<<auth.baseUrl>>) or "curly" ({domain}); path is the sequence   *)
(* of its segments' kinds: "lit" (users), "curly" ({id}), "url"            *)
(* (<<url.id>>), "auth" (<<auth.id>>), "bad" (<<url.id>); query is "none"  *)
(* or "lit" (?limit=10).                                                   *)

Url(scheme, host, path, query) ==
    [scheme |-> scheme, host |-> host, path |-> path, query |-> query]

\* the URL of no characters
EmptyUrl == Url("none", "none", <<>>, "none")

\* method: the parts between "curl" and the URL
Command(method, quote, url, headers) ==
    [method |-> method, quote |-> quote, url |-> url, headers |-> headers]

\* curl.split(' ')
Parts(curl) ==
    <<"curl">> \o curl.method \o <<"URL">>
    \o [k \in 1..(2 * Len(curl.headers)) |-> IF k % 2 = 1 THEN "-H" ELSE "HDR"]

----------------------------------------------------------------------------
(* autonomous_universal_agent, app.py:1207-1489.                           *)
(*                                                                         *)
(* agent is the frame of one call: pc, the pages scrape_comprehensive      *)
(* returned, extracted_endpoints, the tool loop's iteration,               *)
(* connector_group_created, created_endpoints (the names, in order) and    *)
(* created_endpoint_names, the requests the loop's last iteration handed   *)
(* to call_fastn_api, and the value returned; llm_requests counts the      *)
(* requests the tool loop sent to the LLM, and left tells how the loop was *)
(* left: "text" (a message without tool calls), "raised" (an exception in  *)
(* an iteration), "exhausted" (the while test failed), "no" (not yet).     *)

max_iterations == 20

\* tool calls of one message of the LLM
MaxCalls == 1

\* endpoints one run creates
MaxCreated == 2

\* what a url gives when it is scraped: the request or the parse raises, or
\* a page (one of 99 characters of digest, one of 101)
AgentPages ==
    { PageData(<<"A","P","I">>, ScraperKeys, << <<5, [text |-> Text(0, 90)]>> >>),
      PageData(<<"A","P","I">>, ScraperKeys, << <<5, [text |-> Text(0, 92)]>> >>) }

\* the page of a url whose request or parse raised
FailedPage == [failed |-> TRUE]

ScrapeOutcomes == {FailedPage} \cup AgentPages

RECURSIVE Scraped(_)
\* scrape_comprehensive, app.py:527-755: a page that raises is logged and
\* left out (app.py:741-743), the others are the pages of raw_data
Scraped(outcomes) ==
    IF outcomes = <<>> THEN <<>>
    ELSE IF Head(outcomes) = FailedPage THEN Scraped(Tail(outcomes))
    ELSE <<Head(outcomes)>> \o Scraped(Tail(outcomes))

\* the replies of the LLM to a page of the run
AgentReplies ==
    { [kind |-> "api_error"],
      TextReply("bare", JsonValue("list", <<>>)),
      TextReply("bare", JsonValue("list", <<CurlItem(TRUE, TRUE, "set")>>)),
      TextReply("bare", JsonValue("list", <<CurlItem(TRUE, FALSE, "set")>>)) }

RECURSIVE RunExtract(_, _, _, _)
\* extract_endpoints_with_ai(raw_data, client) as one call: the loop of
\* app.py:764-791 from page k on; raised as in AddCurls
RunExtract(pages, replies, k, endpoints) ==
    IF k > Len(pages) THEN [endpoints |-> endpoints, raised |-> FALSE]
    ELSE LET filtered_content == FilterPageContent(pages[k]) IN
         IF Blank(filtered_content)
         THEN RunExtract(pages, replies, k + 1, endpoints)
         ELSE LET added == AddCurls(endpoints,
                                    ExtractCurlsFromPage(replies[k], k))
              IN  IF added.raised THEN added
                  ELSE RunExtract(pages, replies, k + 1, added.endpoints)

\* the auth argument of a create_connector_group call: none given, or
\* [type, details], details "empty" ({}) or "filled"
Auth(type, details) == [type |-> type, details |-> details]

\* the arguments have no 'auth'
NoAuth == [absent |-> TRUE]

\* the arguments "{}", and those json.loads rejects
NoArgs == [empty |-> TRUE]

AgentAuths ==
    { NoAuth, Auth("apiKey", "filled"), Auth("apiKey", "empty"),
      Auth("none", "empty"), Auth("oauth", "filled"), Auth("jwt", "filled") }

\* the commands the LLM hands to create_connector_endpoint_under_group
AgentCurls ==
    { Command(<<"-X", "GET">>, "single",
              Url("https", "static", <<"lit", "url">>, "lit"), <<"Content-Type">>),
      Command(<<"-X", "GET">>, "single",
              Url("https", "static", <<"lit", "curly">>, "lit"), <<"Content-Type">>),
      Command(<<"-X", "POST">>, "single",
              Url("https", "static", <<"lit">>, "none"), <<"Authorization", "Content-Type">>) }

\* the names the LLM gives to the endpoints
EndpointNames == {"getUsers", "createUser"}

\* a tool call of the LLM's message with what call_fastn_api returns for it:
\* "error" ({"error": ..}), "ok" (a result with an id), "ok_noid"; parsed
\* tells whether json.loads takes its arguments
ToolCall(function_name, function_args, parsed, result) ==
    [ function_name |-> function_name, function_args |-> function_args,
      parsed |-> parsed, result |-> result ]

ToolCalls ==
    { ToolCall("get_connector_groups", NoArgs, TRUE, r) : r \in {"ok", "error"} }
    \cup { ToolCall("create_connector_group", [auth |-> a], TRUE, r) :
             a \in AgentAuths, r \in {"ok", "ok_noid", "error"} }
    \cup { ToolCall("create_connector_endpoint_under_group",
                    [name |-> nm, curl |-> c], TRUE, r) :
             nm \in EndpointNames, c \in AgentCurls, r \in {"ok", "error"} }
    \cup { ToolCall("create_connector_group", NoArgs, FALSE, "error") }

\* the messages of the LLM: the request raises, a text, or tool calls
Messages(n) ==
    IF n = 0 THEN { [kind |-> "api_error"], [kind |-> "text"] }
    ELSE { [kind |-> "tools", tool_calls |-> s] : s \in [1..n -> ToolCalls] }

\* a request handed to call_fastn_api
Request(tool_call) ==
    [ function_name |-> tool_call.function_name,
      function_args |-> tool_call.function_args ]

RECURSIVE RunTools(_, _)
\* app.py:1397-1426: the loop over message.tool_calls, on the part f of the
\* frame it works on; raised when json.loads rejects the arguments
RunTools(f, tool_calls) ==
    IF tool_calls = <<>> THEN f
    ELSE LET tool_call == Head(tool_calls) IN
         IF ~tool_call.parsed THEN [f EXCEPT !.raised = TRUE]
         ELSE LET g == [f EXCEPT !.dispatched = Append(f.dispatched, Request(tool_call))]
                  h == IF /\ tool_call.function_name = "create_connector_group"
                          /\ tool_call.result # "error"
                       THEN [g EXCEPT !.connector_group_created =
                                IF tool_call.result = "ok" THEN "group" ELSE "None"]
                       ELSE IF /\ tool_call.function_name
                                     = "create_connector_endpoint_under_group"
                               /\ tool_call.result # "error"
                       THEN [g EXCEPT
                               !.created_endpoint_names =
                                  @ \cup {tool_call.function_args.name},
                               !.created_endpoints =
                                  Append(@, tool_call.function_args.name)]
                       ELSE g
              IN  RunTools(h, Tail(tool_calls))

\* the endpoints the tool calls of a message would create
Creates(tool_calls) ==
    Cardinality({ k \in DOMAIN tool_calls :
                    /\ tool_calls[k].function_name
                         = "create_connector_endpoint_under_group"
                    /\ tool_calls[k].result # "error" })

\* the frame at the call
AgentFrame ==
    [ pc |-> "scrape", pages |-> <<>>, extracted_endpoints |-> <<>>,
      iteration |-> 0, connector_group_created |-> "None",
      created_endpoints |-> <<>>, created_endpoint_names |-> {},
      llm_requests |-> 0, left |-> "no",
      dispatched |-> <<>>, raised |-> FALSE,
      result |-> [returned |-> FALSE] ]

\* app.py:1237: STEP 1
AgentScrape ==
    /\ agent.pc = "scrape"
    /\ \E n \in 0..MaxPages : \E outcomes \in [1..n -> ScrapeOutcomes] :
          agent' = [agent EXCEPT !.pc = "extract", !.pages = Scraped(outcomes)]
    /\ UNCHANGED <<filterVars, scrapeVars, extractVars, chatVars, crawlVars>>

\* app.py:1244: STEP 2; an exception of the call ends the run in the outer
\* handler of app.py:1480-1489
AgentExtract ==
    /\ agent.pc = "extract"
    /\ \E replies \in [1..Len(agent.pages) -> AgentReplies] :
          LET run == RunExtract(agent.pages, replies, 1, <<>>) IN
          agent' = IF run.raised
                   THEN [agent EXCEPT !.pc = "done",
                                      !.extracted_endpoints = run.endpoints,
                                      !.raised = TRUE,
                                      !.result = [error |-> TRUE]]
                   ELSE [agent EXCEPT !.pc = "loop",
                                      !.extracted_endpoints = run.endpoints]
    /\ UNCHANGED <<filterVars, scrapeVars, extractVars, chatVars, crawlVars>>

\* the mutant of AgentIterate: an exception ends the iteration, not the loop
AgentIterateContinues ==
    /\ agent.pc = "loop"
    /\ agent.iteration < max_iterations
    /\ \E n \in 0..MaxCalls : \E message \in Messages(n) :
          LET f == [agent EXCEPT !.iteration = agent.iteration + 1,
                                 !.llm_requests = agent.llm_requests + 1,
                                 !.dispatched = <<>>]
          IN  IF message.kind = "text"
              THEN agent' = [f EXCEPT !.pc = "final", !.left = "text"]
              ELSE IF message.kind # "tools"
              THEN agent' = [f EXCEPT !.left = "raised"]
              ELSE /\ Len(agent.created_endpoints) + Creates(message.tool_calls)
                        <= MaxCreated
                   /\ LET g == RunTools(f, message.tool_calls) IN
                      agent' = IF g.raised
                               THEN [g EXCEPT !.raised = FALSE, !.left = "raised"]
                               ELSE g
    /\ UNCHANGED <<filterVars, scrapeVars, extractVars, chatVars, crawlVars>>

\* app.py:1361-1444: one turn of the tool loop
AgentIterate ==
    /\ agent.pc = "loop"
    /\ agent.iteration < max_iterations
    /\ \E n \in 0..MaxCalls : \E message \in Messages(n) :
          LET f == [agent EXCEPT !.iteration = agent.iteration + 1,
                                 !.llm_requests = agent.llm_requests + 1,
                                 !.dispatched = <<>>]
          IN  IF message.kind # "tools"
              THEN agent' = [f EXCEPT                           \* break
                               !.pc = "final",
                               !.left = IF message.kind = "text"
                                        THEN "text" ELSE "raised"]
              ELSE /\ Len(agent.created_endpoints) + Creates(message.tool_calls)
                        <= MaxCreated
                   /\ LET g == RunTools(f, message.tool_calls) IN
                      agent' = IF g.raised
                               THEN [g EXCEPT !.pc = "final", !.raised = FALSE,
                                              !.left = "raised"]
                               ELSE g
    /\ UNCHANGED <<filterVars, scrapeVars, extractVars, chatVars, crawlVars>>

\* app.py:1446-1478: the loop is left, final_results is saved and returned
AgentFinish ==
    /\ \/ agent.pc = "final"
       \/ agent.pc = "loop" /\ agent.iteration >= max_iterations
    /\ agent' =
         [agent EXCEPT
            !.pc = "done",
            !.left = IF agent.pc = "loop" THEN "exhausted" ELSE agent.left,
            !.result = [ error |-> FALSE,
                         total_pages_scraped |-> Len(agent.pages),
                         endpoints_extracted |-> Len(agent.extracted_endpoints),
                         connector_group_id |-> agent.connector_group_created,
                         endpoints_created |-> Len(agent.created_endpoints),
                         total_iterations |-> agent.iteration ]]
    /\ UNCHANGED <<filterVars, scrapeVars, extractVars, chatVars, crawlVars>>

InitAgent ==
    /\ agent = AgentFrame
    /\ IdleFilter /\ IdleScrape /\ IdleExtract /\ IdleChat /\ IdleCrawl

NextAgent ==
    \/ AgentScrape
    \/ AgentExtract
    \/ AgentIterate
    \/ AgentFinish

SpecAgent == InitAgent /\ [][NextAgent]_vars

\* the tool loop runs on: a turn that can be taken is taken, and the code
\* after the loop runs once the loop is left
FairAgent == SpecAgent /\ WF_vars(AgentIterate) /\ WF_vars(AgentFinish)

----------------------------------------------------------------------------
(* fastn_function, fastn_function.py:398-585, and                          *)
(* ChatConnectorAgent.execute_tool, chat_app.py:177-278.                   *)
(*                                                                         *)
(* chat is the agent of one session: connector_group_id,                   *)
(* scraped_endpoints, the number of execute_tool calls made, the requests  *)
(* the last call sent to the remote API and the value it returned (for     *)
(* scrape_documentation with the commands fastn_function gave, and with    *)
(* the status fastn_function gave).                                        *)

\* execute_tool calls of one session
MaxToolRuns == 2

\* commands of one extraction
MaxCommands == 2

\* the item has no key 'curl'
NoCurl == [absent |-> TRUE]

\* "curl": null
NullCurl == [null |-> TRUE]

\* an item of the extracted content: whether it is an object, whether it
\* has the key 'name', and its 'curl'
ChatItem(dict, name, curl) == [dict |-> dict, name |-> name, curl |-> curl]

\* the commands the LLM writes
ChatCurls ==
    { Command(<<"-X", "GET">>, "double",
              Url("https", "static", <<"lit", "url">>, "lit"), <<"Content-Type">>),
      Command(<<"-X", "GET">>, "single",
              Url("https", "auth", <<"lit", "url">>, "lit"), <<"Content-Type">>),
      Command(<<"-X", "POST">>, "double",
              Url("https", "static", <<"lit", "curly">>, "none"),
              <<"Authorization", "Content-Type">>),
      Command(<<>>, "double",
              Url("https", "static", <<"lit">>, "none"), <<>>),
      Command(<<"-XPOST">>, "double",
              Url("https", "static", <<"lit", "auth">>, "none"), <<"X-API-Key">>),
      Command(<<"-X", "", "PUT">>, "double", EmptyUrl, <<>>),
      Command(<<"-X", "DELETE">>, "double",
              Url("https", "static", <<"lit", "bad">>, "none"), <<>>),
      Command(<<"-X">>, "single",
              Url("https", "static", <<"lit">>, "none"), <<>>) }

ChatItems ==
    { ChatItem(TRUE, TRUE, c) : c \in ChatCurls }
    \cup { ChatItem(TRUE, FALSE, Command(<<"-X", "GET">>, "double",
                       Url("https", "static", <<"lit">>, "none"), <<>>)),
           ChatItem(TRUE, TRUE, NoCurl),
           ChatItem(TRUE, TRUE, NullCurl),
           ChatItem(FALSE, FALSE, NoCurl) }

\* what the crawler gives: arun raises; result.success is false; or the
\* extracted content: "invalid" (no JSON), "none" (None), a list, an object
\* with the list under 'commands', an object without 'commands', an object
\* whose 'commands' is null, a number
Crawl(kind, items) == [kind |-> kind, items |-> items]

PlainCrawls ==
    { Crawl(k, <<>>) :
        k \in {"raises", "unsuccessful", "invalid", "none", "object",
               "null_commands", "number"} }

ListCrawls(n) ==
    { Crawl(k, s) : k \in {"list", "commands"}, s \in [1..n -> ChatItems] }

\* extract_with_crawl4ai and fastn_function: the dict returned
FastnFunction(crawled) ==
    IF crawled.kind \in {"list", "commands", "object", "number"}
    THEN [status |-> "success", curl_commands |-> crawled.items, error |-> FALSE]
    ELSE [status |-> "failed", curl_commands |-> <<>>, error |-> TRUE]

\* the first part after a part "-X"
AfterX(parts) ==
    LET hits == { i \in 1..(Len(parts) - 1) : parts[i] = "-X" }
    IN  parts[(CHOOSE i \in hits : \A j \in hits : i <= j) + 1]

\* 'curl -X' in curl: "curl" is followed by a part that begins with -X
HasCurlX(parts) ==
    \E i \in 1..(Len(parts) - 1) :
        parts[i] = "curl" /\ parts[i + 1] \in {"-X", "-XPOST"}

\* the mutant of ExtractMethod: no default, the method is what follows -X
ExtractMethodNoDefault(curl) ==
    LET parts == Parts(curl) IN
    IF \E i \in 1..(Len(parts) - 1) : parts[i] = "-X"
    THEN AfterX(parts)
    ELSE ""

\* _extract_method, chat_app.py:268-274
ExtractMethod(curl) ==
    LET parts == Parts(curl) IN
    IF HasCurlX(parts) /\ \E i \in 1..(Len(parts) - 1) : parts[i] = "-X"
    THEN AfterX(parts)
    ELSE "GET"

\* the url _extract_url gives when the pattern does not match
UnknownUrl == [unknown |-> TRUE]

\* _extract_url, chat_app.py:276-278: the first "http.." between double
\* quotes
ExtractUrl(curl) ==
    IF curl.quote = "double" /\ curl.url.scheme \in {"http", "https"}
    THEN curl.url
    ELSE UnknownUrl

\* chat_app.py:208: the test of a command
Formatted(cmd) == cmd.dict /\ cmd.name /\ cmd.curl # NoCurl

\* chat_app.py:209-214
Endpoint(cmd) ==
    [ name |-> cmd.name, method |-> ExtractMethod(cmd.curl),
      url |-> ExtractUrl(cmd.curl), curl |-> cmd.curl ]

RECURSIVE FormatEndpoints(_)
\* chat_app.py:205-215: the loop over result["curl_commands"]; raised when
\* a 'curl' is no string
FormatEndpoints(commands) ==
    IF commands = <<>> THEN [endpoints |-> <<>>, raised |-> FALSE]
    ELSE LET cmd == Head(commands)
             rest == FormatEndpoints(Tail(commands))
         IN  IF ~Formatted(cmd) THEN rest
             ELSE IF cmd.curl = NullCurl
                  THEN [endpoints |-> <<>>, raised |-> TRUE]
                  ELSE [endpoints |-> <<Endpoint(cmd)>> \o rest.endpoints,
                        raised |-> rest.raised]

\* the auth arguments of a create_connector_group call
ChatAuths ==
    { NoAuth, Auth("none", "empty"), Auth("jwt", "filled") }
    \cup { Auth(t, d) : t \in {"oauth", "apiKey"}, d \in {"empty", "filled"} }

\* what call_fastn_api does with a request: no token, so nothing is sent;
\* the remote API answers with an error, with an id, or with no id
RemoteResults == { "no_token", "error", "g1", "g2", "no_id" }

\* the requests sent to the remote API by a call_fastn_api call
Sent(function_name, arguments, remote) ==
    IF remote = "no_token" THEN <<>>
    ELSE << [function_name |-> function_name, arguments |-> arguments] >>

\* "error" not in result
Succeeded(remote) == remote \notin {"no_token", "error"}

\* result.get("connectorGroupId") or result.get("id")
GroupIdOf(remote) == IF remote \in {"g1", "g2"} THEN remote ELSE "None"

ChatFrame ==
    [ pc |-> "run", connector_group_id |-> "None", scraped_endpoints |-> <<>>,
      runs |-> 0, dispatched |-> <<>>, returned |-> [status |-> "none"] ]

\* execute_tool is called
AtTool ==
    /\ chat.pc = "run"
    /\ chat.runs < MaxToolRuns

\* chat_app.py:180-247
ScrapeDocumentation ==
    /\ AtTool
    /\ \E n \in 0..MaxCommands : \E crawled \in PlainCrawls \cup ListCrawls(n) :
          LET result == FastnFunction(crawled)
              made == FormatEndpoints(result.curl_commands)
          IN  chat' =
                IF made.raised
                THEN [chat EXCEPT !.runs = chat.runs + 1,
                                  !.dispatched = <<>>,
                                  !.returned = [ status |-> "failed",
                                                 fastn |-> result.status,
                                                 commands |-> result.curl_commands,
                                                 extracted_endpoints |-> <<>> ]]
                ELSE [chat EXCEPT !.runs = chat.runs + 1,
                                  !.dispatched = <<>>,
                                  !.scraped_endpoints = made.endpoints,
                                  !.returned = [ status |-> "success",
                                                 fastn |-> result.status,
                                                 commands |-> result.curl_commands,
                                                 extracted_endpoints |-> made.endpoints ]]
    /\ UNCHANGED <<filterVars, scrapeVars, extractVars, agentVars, crawlVars>>

\* chat_app.py:249-255
CreateConnectorGroup ==
    /\ AtTool
    /\ \E auth \in ChatAuths, remote \in RemoteResults :
          chat' = [chat EXCEPT
                     !.runs = chat.runs + 1,
                     !.dispatched = Sent("create_connector_group",
                                         [auth |-> auth], remote),
                     !.connector_group_id =
                        IF Succeeded(remote) THEN GroupIdOf(remote)
                        ELSE chat.connector_group_id,
                     !.returned = [status |-> remote]]
    /\ UNCHANGED <<filterVars, scrapeVars, extractVars, agentVars, crawlVars>>

\* the mutant of CreateConnectorEndpoint: the arguments are sent as given
CreateConnectorEndpointAsGiven ==
    /\ AtTool
    /\ \E curl \in ChatCurls, given \in {"None", "given"},
          remote \in {"no_token", "error", "no_id"} :
          chat' = [chat EXCEPT
                     !.runs = chat.runs + 1,
                     !.dispatched =
                        Sent("create_connector_endpoint_under_group",
                             [curl |-> curl, connectorGroupId |-> given],
                             remote),
                     !.returned = [status |-> remote]]
    /\ UNCHANGED <<filterVars, scrapeVars, extractVars, agentVars, crawlVars>>

\* chat_app.py:257-263
CreateConnectorEndpoint ==
    /\ AtTool
    /\ \E curl \in ChatCurls, given \in {"None", "given"},
          remote \in {"no_token", "error", "no_id"} :
          LET connectorGroupId ==
                 IF given = "None" /\ chat.connector_group_id # "None"
                 THEN chat.connector_group_id ELSE given
          IN  chat' = [chat EXCEPT
                         !.runs = chat.runs + 1,
                         !.dispatched =
                            Sent("create_connector_endpoint_under_group",
                                 [curl |-> curl,
                                  connectorGroupId |-> connectorGroupId],
                                 remote),
                         !.returned = [status |-> remote]]
    /\ UNCHANGED <<filterVars, scrapeVars, extractVars, agentVars, crawlVars>>

\* chat_app.py:265-266
UnknownTool ==
    /\ AtTool
    /\ chat' = [chat EXCEPT !.runs = chat.runs + 1, !.dispatched = <<>>,
                            !.returned = [status |-> "unknown_tool"]]
    /\ UNCHANGED <<filterVars, scrapeVars, extractVars, agentVars, crawlVars>>

InitChat ==
    /\ chat = ChatFrame
    /\ IdleFilter /\ IdleScrape /\ IdleExtract /\ IdleAgent /\ IdleCrawl

NextChat ==
    \/ ScrapeDocumentation
    \/ CreateConnectorGroup
    \/ CreateConnectorEndpoint
    \/ UnknownTool

SpecChat == InitChat /\ [][NextChat]_vars

----------------------------------------------------------------------------
(* ChatConnectorAgent.chat, chat_app.py:280-418: the turns of the session. *)
(*                                                                         *)
(* Here chat holds self.conversation, the number of turns made, and the    *)
(* message lists the last turn sent to the LLM.                            *)

\* turns of a session
MaxTurns == 3

\* tool calls of one message of the LLM
MaxTalkCalls == 2

\* a message of self.conversation
Msg(role, tool_calls, tool_call_id) ==
    [role |-> role, tool_calls |-> tool_calls, tool_call_id |-> tool_call_id]

UserMsg == Msg("user", <<>>, <<>>)

TextMsg == Msg("assistant", <<>>, <<>>)

\* the ids of the n tool calls of the message of a turn
CallIds(turn, n) == [k \in 1..n |-> <<turn, k>>]

\* how a tool call of the loop of chat_app.py:356-370 goes: execute_tool
\* returns its string; json.loads raises on the arguments; execute_tool
\* raises (arguments without 'url' at chat_app.py:181, arguments that are
\* no object)
CallOutcomes == {"returns", "bad_json", "raises"}

RECURSIVE RunCalls(_, _, _)
\* chat_app.py:356-370: the tool messages appended for the calls from the
\* k-th on, until a call raises
RunCalls(ids, outcomes, k) ==
    IF k > Len(ids) THEN [messages |-> <<>>, raised |-> FALSE]
    ELSE IF outcomes[k] # "returns" THEN [messages |-> <<>>, raised |-> TRUE]
    ELSE LET rest == RunCalls(ids, outcomes, k + 1)
         IN  [ messages |-> <<Msg("tool", <<>>, ids[k])>> \o rest.messages,
               raised |-> rest.raised ]

\* chat_app.py:26-45 and 304-307, a new session
TalkFrame ==
    [ pc |-> "input", conversation |-> <<Msg("system", <<>>, <<>>)>>,
      turns |-> 0, requests |-> <<>> ]

\* input() has given a text that is not 'quit'
AtInput ==
    /\ chat.pc = "input"
    /\ chat.turns < MaxTurns

\* chat_app.py:313-316
Quit ==
    /\ chat.pc = "input"
    /\ chat' = [chat EXCEPT !.pc = "done", !.requests = <<>>]
    /\ UNCHANGED <<filterVars, scrapeVars, extractVars, agentVars, crawlVars>>

\* chat_app.py:322-334, 416-418: the request to the LLM raises
TurnRequestFails ==
    /\ AtInput
    /\ LET said == Append(chat.conversation, UserMsg) IN
       chat' = [chat EXCEPT !.turns = @ + 1,
                            !.conversation = said,
                            !.requests = <<said>>]
    /\ UNCHANGED <<filterVars, scrapeVars, extractVars, agentVars, crawlVars>>

\* chat_app.py:322-336, 404-411: the LLM answers with a text
TurnText ==
    /\ AtInput
    /\ LET said == Append(chat.conversation, UserMsg) IN
       chat' = [chat EXCEPT !.turns = @ + 1,
                            !.conversation = Append(said, TextMsg),
                            !.requests = <<said>>]
    /\ UNCHANGED <<filterVars, scrapeVars, extractVars, agentVars, crawlVars>>

\* chat_app.py:322-402, 416-418: the LLM answers with tool calls; the
\* calls run until one raises, and when none did the follow-up request is
\* sent, which raises or gives the text appended
TurnTools ==
    /\ AtInput
    /\ \E n \in 1..MaxTalkCalls : \E outcomes \in [1..n -> CallOutcomes] :
       \E followup \in {"raises", "text"} :
          LET said  == Append(chat.conversation, UserMsg)
              ids   == CallIds(chat.turns + 1, n)
              asked == Append(said, Msg("assistant", ids, <<>>))
              run   == RunCalls(ids, outcomes, 1)
              told  == asked \o run.messages
          IN  chat' = [chat EXCEPT
                         !.turns = @ + 1,
                         !.conversation =
                            IF run.raised \/ followup = "raises" THEN told
                            ELSE Append(told, TextMsg),
                         !.requests =
                            IF run.raised THEN <<said>> ELSE <<said, told>>]
    /\ UNCHANGED <<filterVars, scrapeVars, extractVars, agentVars, crawlVars>>

InitTalk ==
    /\ chat = TalkFrame
    /\ IdleFilter /\ IdleScrape /\ IdleExtract /\ IdleAgent /\ IdleCrawl

NextTalk ==
    \/ Quit
    \/ TurnRequestFails
    \/ TurnText
    \/ TurnTools

SpecTalk == InitTalk /\ [][NextTalk]_vars

----------------------------------------------------------------------------
(* What the claims about the filter speak of.                              *)

Max(a, b) == IF a >= b THEN a ELSE b

\* the category the call is in
Current(f) == BlockOrder(f.page_data)[f.cat]

\* everything written so far: the digest under construction and the
\* section of the running block
Built(f) == f.filtered_content \o f.section

BudgetedCats == { "tables", "headings", "lists", "paragraphs", "divs",
                  "spans", "blockquotes", "sections" }

\* record k of list c is in the string s
Appended(s, c, k) == \E j \in DOMAIN s : s[j].cat = c /\ s[j].idx = k

RECURSIVE SizeOfCats(_, _)
\* the characters of s that come from the pieces of the categories cs
SizeOfCats(s, cs) ==
    IF s = <<>> THEN 0
    ELSE (IF Head(s).cat \in cs /\ Head(s).idx > 0 THEN PieceLen(Head(s)) ELSE 0)
         + SizeOfCats(Tail(s), cs)

\* the title line and the code blocks, which no test guards
UncheckedSize(s) ==
    SizeOfCats(s, {"code_blocks"})
    + (IF s # <<>> /\ Head(s).cat = "title" THEN PieceLen(Head(s)) ELSE 0)

\* the order the claims give
ClaimedOrder ==
    << "title", "code_blocks", "tables", "headings", "lists", "paragraphs",
       "divs", "spans", "blockquotes", "sections", "marker" >>

Rank(c) == CHOOSE r \in DOMAIN ClaimedOrder : ClaimedOrder[r] = c

----------------------------------------------------------------------------
(* C1, as stated: the cumulative size is non-decreasing as fragments are   *)
(* appended and never exceeds the ceiling of 20000, and so the digest      *)
(* handed to the LLM is bounded by the ceiling.                            *)
C1_SizeNeverExceedsCeiling ==
    [][ /\ filt'.total_size >= filt.total_size
        /\ filt'.total_size <= max_size
        /\ StrLen(filt'.digest) <= max_size ]_vars

(* C1, amended: the cumulative size is non-decreasing; a fragment of a     *)
(* category other than code blocks is appended only if the size stays      *)
(* below the ceiling; the size exceeds the ceiling only by the title line  *)
(* and the code blocks, which are added unchecked.                         *)
C1_MonotonicBudget ==
    [][ /\ filt'.total_size >= filt.total_size
        /\ ( /\ filt.pc = "items"
             /\ Current(filt) # "code_blocks"
             /\ filt'.total_size > filt.total_size )
           => filt'.total_size < max_size
        /\ filt'.total_size <= Max(max_size - 1, UncheckedSize(Built(filt'))) ]_vars

\* the call ended one character under the ceiling and an eligible fragment
\* of a budgeted category is not in the digest
C1_Witness ==
    /\ filt.pc = "done"
    /\ filt.total_size = max_size - 1
    /\ \E c \in BudgetedCats : \E k \in DOMAIN filt.page_data[c] :
          /\ Eligible(c, filt.page_data[c][k])
          /\ ~Appended(filt.digest, c, k)

----------------------------------------------------------------------------
\* record k of the code blocks is in s with its text as it was given
CodeWhole(f, s, k) ==
    \E j \in DOMAIN s :
        /\ s[j].cat = "code_blocks" /\ s[j].idx = k
        /\ s[j].text = f.page_data.code_blocks[k].text

AllCodeWhole(f) ==
    \A k \in DOMAIN f.page_data.code_blocks :
        NonBlank(f.page_data.code_blocks[k].text) => CodeWhole(f, f.digest, k)

(* C2, as stated: every code block whose text is not blank is in the       *)
(* returned digest in full, whatever its length and the budget.            *)
C2_CodeAlwaysInDigest == filt.pc = "done" => AllCodeWhole(filt)

(* C2, amended: every non-empty digest the function returns holds every    *)
(* code block whose text is not blank, in full, whatever its length; the   *)
(* fragments of the other categories in it fit in what the title line and  *)
(* the code blocks left of the ceiling.  (A page whose title has a skip    *)
(* keyword or whose size is at most 100 returns the empty digest.)         *)
C2_CodeInEveryDigest ==
    (filt.pc = "done" /\ filt.digest # <<>>) =>
        /\ AllCodeWhole(filt)
        /\ SizeOfCats(filt.digest, BudgetedCats) > 0 =>
              UncheckedSize(filt.digest) + SizeOfCats(filt.digest, BudgetedCats)
                  < max_size

\* a digest whose code blocks alone pass the ceiling, and an eligible
\* fragment of another category that was left out
C2_Witness ==
    /\ filt.pc = "done" /\ filt.digest # <<>>
    /\ SizeOfCats(filt.digest, {"code_blocks"}) > max_size
    /\ \E c \in BudgetedCats : \E k \in DOMAIN filt.page_data[c] :
          /\ Eligible(c, filt.page_data[c][k])
          /\ ~Appended(filt.digest, c, k)

----------------------------------------------------------------------------
\* the fragment the loop is at, and its addition
AtItem(f)     == f.page_data[Current(f)][f.i]
AtAddition(f) == Addition(Current(f), f.i, AtItem(f))

RECURSIVE SizeFrom(_, _)
\* the characters of the fragments of s whose records are j or later
SizeFrom(s, j) ==
    IF s = <<>> THEN 0
    ELSE (IF Head(s).idx >= j /\ Head(s).idx > 0 THEN PieceLen(Head(s)) ELSE 0)
         + SizeFrom(Tail(s), j)

\* an earlier record of the running block passed the block's tests on its
\* text, and appending it would have taken the size past the ceiling
EarlierDropped(f) ==
    \E j \in 1..(f.i - 1) :
        /\ Eligible(Current(f), f.page_data[Current(f)][j])
        /\ (f.total_size - SizeFrom(f.section, j))
             + PieceLen(Addition(Current(f), j, f.page_data[Current(f)][j]))
             > max_size

\* every fragment of the section carries the whole stripped text of its record
NothingPartial(f) ==
    \A j \in DOMAIN f.section :
        f.section[j].idx > 0 =>
            Strip(f.section[j].text)
                = Strip(f.page_data[f.section[j].cat][f.section[j].idx].text)

(* C3, as stated: in a budgeted category, once appending a fragment would  *)
(* exceed the ceiling, that fragment and every later fragment of the       *)
(* category are dropped; no fragment is appended partially.                *)
C3_LaterFragmentsDropped ==
    [][ (filt.pc = "items" /\ Current(filt) \in BudgetedCats) =>
          /\ filt.total_size + PieceLen(AtAddition(filt)) > max_size
                => filt'.section = filt.section
          /\ EarlierDropped(filt) => filt'.section = filt.section
          /\ NothingPartial(filt') ]_vars

(* C3, amended: in a budgeted category a fragment is dropped whole when     *)
(* appending it would reach or exceed the ceiling and appended whole when  *)
(* it passes the block's tests on its text and keeps the size below the    *)
(* ceiling; each fragment is tested on its own, so a later, smaller        *)
(* fragment of the category is appended after an earlier one was dropped;  *)
(* no fragment is appended partially.                                      *)
C3_EachFragmentTested ==
    [][ (filt.pc = "items" /\ Current(filt) \in BudgetedCats) =>
          /\ filt.total_size + PieceLen(AtAddition(filt)) >= max_size
                => (filt'.section = filt.section
                    /\ filt'.total_size = filt.total_size)
          /\ ( /\ Eligible(Current(filt), AtItem(filt))
               /\ filt.total_size + PieceLen(AtAddition(filt)) < max_size )
                => ( /\ Len(filt'.section) = Len(filt.section) + 1
                     /\ Appended(filt'.section, Current(filt), filt.i)
                     /\ filt'.total_size
                          = filt.total_size + PieceLen(AtAddition(filt)) )
          /\ NothingPartial(filt') ]_vars

\* a block in which a fragment was dropped for the budget and a later one
\* appended
C3_Witness ==
    /\ filt.pc = "close" /\ Current(filt) \in BudgetedCats
    /\ \E j, k \in DOMAIN filt.page_data[Current(filt)] :
          /\ j < k
          /\ Eligible(Current(filt), filt.page_data[Current(filt)][j])
          /\ ~Appended(filt.section, Current(filt), j)
          /\ Appended(filt.section, Current(filt), k)

----------------------------------------------------------------------------
(* C8: in the returned digest the sections that are present stand in the   *)
(* order code blocks, tables, headings, lists, paragraphs, divs, spans,    *)
(* blockquotes, sections, whatever the order of the keys of page_data.     *)
C8_FixedSectionOrder ==
    filt.pc = "done" =>
        \A a, b \in DOMAIN filt.digest :
            a < b => Rank(filt.digest[a].cat) <= Rank(filt.digest[b].cat)

\* a digest with a code section and a headings section, of a page whose
\* keys have the headings first
C8_Witness ==
    /\ filt.pc = "done"
    /\ filt.page_data.keys = ScraperKeys
    /\ Appended(filt.digest, "code_blocks", 0)
    /\ Appended(filt.digest, "headings", 0)
    /\ Appended(filt.digest, "sections", 0)

----------------------------------------------------------------------------
(* What the claims about the container passes speak of.                    *)

ContainerTags == {"section", "article", "div", "p", "blockquote"}

ListNames == {"sections", "divs", "paragraphs", "blockquotes", "spans"}

\* page_data sc has a record that came from node n
HasRecord(sc, n) ==
    \E l \in ListNames : \E k \in DOMAIN sc[l] : sc[l][k].node = n

\* every pass has run
PassesDone == visit = Len(PassOrder(dom))

\* the windows as the claims give them
ClaimedWindow(list) ==
    CASE list = "paragraphs" -> [lo |-> 10, hi |-> 800]
      [] list = "divs"       -> [lo |-> 10, hi |-> 1000]
      [] list = "sections"   -> [lo |-> 50, hi |-> 1500]

\* the category maxima of the containers
ClaimedMax(tag) ==
    CASE tag \in {"section", "article"} -> 1500
      [] tag = "div"                    -> 1000
      [] tag = "p"                      -> 800
      [] tag = "blockquote"             -> 1200

----------------------------------------------------------------------------
(* C4: for every container that was emitted as a record, every descendant  *)
(* is in the covered set and no record for a descendant is produced        *)
(* afterwards on the page.                                                 *)
C4_NoRecordUnderEmittedContainer ==
    [][ /\ \A a \in DOMAIN dom :
              (dom[a].tag \in ContainerTags /\ HasRecord(scraped', a)) =>
                  \A m \in Descendants(dom, a) :
                      IsIn(dom, m, extracted_elements')
        /\ \A m \in DOMAIN dom :
              (HasRecord(scraped', m) /\ ~HasRecord(scraped, m)) =>
                  \A a \in Ancestors(dom, m) :
                      ~(dom[a].tag \in ContainerTags /\ HasRecord(scraped, a)) ]_vars

----------------------------------------------------------------------------
(* C5: a visit to a container whose text is at or over its category        *)
(* maximum emits no record and leaves the covered set as it was, so the    *)
(* visit covers none of its descendants.                                   *)
C5_OversizedContainerLeftAlone ==
    [][ (visit' = visit + 1
         /\ dom[AtNode].tag \in ContainerTags
         /\ dom[AtNode].text >= ClaimedMax(dom[AtNode].tag)) =>
            /\ scraped' = scraped
            /\ extracted_elements' = extracted_elements
            /\ \A m \in Descendants(dom, AtNode) :
                  IsIn(dom, m, extracted_elements')
                      <=> IsIn(dom, m, extracted_elements) ]_vars

\* a 3000-character section with a 200-character endpoint div in it gave
\* no section record and one div record
C5_Witness ==
    /\ PassesDone
    /\ Len(dom) = 2
    /\ dom[1].tag = "section" /\ dom[1].text = 3000
    /\ dom[2].tag = "div" /\ dom[2].cls = "api" /\ dom[2].text = 200
    /\ dom[2].parent = 1
    /\ scraped.sections = <<>>
    /\ Len(scraped.divs) = 1 /\ scraped.divs[1].node = 2

----------------------------------------------------------------------------
(* C6: every record of page_data's paragraphs, divs and sections has a     *)
(* text whose length is inside its category's window (paragraphs 10-800,   *)
(* divs 10-1000, sections 50-1500) and is the node's whole text; a node    *)
(* whose text is outside the window has no record.                         *)
C6_RecordsInsideWindow ==
    /\ \A l \in {"paragraphs", "divs", "sections"} :
          \A k \in DOMAIN scraped[l] :
              LET r == scraped[l][k] IN
              /\ ListOfTag(dom[r.node].tag) = l
              /\ r.text >= ClaimedWindow(l).lo
              /\ r.text <= ClaimedWindow(l).hi
              /\ r.text = dom[r.node].text
    /\ \A n \in DOMAIN dom :
          LET l == ListOfTag(dom[n].tag) IN
          ( /\ l \in {"paragraphs", "divs", "sections"}
            /\ (dom[n].text < ClaimedWindow(l).lo
                \/ dom[n].text > ClaimedWindow(l).hi) )
          => ~HasRecord(scraped, n)

\* a page with a paragraph of 50 and one of 2000 characters gave one
\* paragraph record, the short one's
C6_Witness ==
    /\ PassesDone
    /\ Len(dom) = 2
    /\ dom[1].tag = "p" /\ dom[1].text = 50
    /\ dom[2].tag = "p" /\ dom[2].text = 2000
    /\ Len(scraped.paragraphs) = 1
    /\ scraped.paragraphs[1].node = 1 /\ scraped.paragraphs[1].text = 50

----------------------------------------------------------------------------
\* the visit is to a paragraph, div or section that is not in the covered
\* set, the div with no class or an API class
C7_Candidate ==
    /\ visit' = visit + 1
    /\ ListOfTag(dom[AtNode].tag) \in {"paragraphs", "divs", "sections"}
    /\ ~IsIn(dom, AtNode, extracted_elements)
    /\ dom[AtNode].tag = "div" => dom[AtNode].cls \in {"none", "api"}

(* C7, as stated: a node that is not covered and whose text length is in   *)
(* its window, the end points included (paragraph 10 to 800, div 10 to     *)
(* 1000, section 50 to 1500), is always emitted.                           *)
C7_WindowEndPointsEmitted ==
    [][ ( /\ C7_Candidate
          /\ dom[AtNode].text >= ClaimedWindow(ListOfTag(dom[AtNode].tag)).lo
          /\ dom[AtNode].text <= ClaimedWindow(ListOfTag(dom[AtNode].tag)).hi )
        => HasRecord(scraped', AtNode) ]_vars

(* C7, amended: a node that is not covered and whose text length is        *)
(* strictly inside its window (paragraph 11 to 799, div 11 to 999 with no  *)
(* class or an API class, section 51 to 1499) is always emitted; a node    *)
(* whose length is an end point of the window is not.                      *)
C7_WindowInteriorEmitted ==
    [][ /\ ( /\ C7_Candidate
             /\ dom[AtNode].text > ClaimedWindow(ListOfTag(dom[AtNode].tag)).lo
             /\ dom[AtNode].text < ClaimedWindow(ListOfTag(dom[AtNode].tag)).hi )
           => ( /\ HasRecord(scraped', AtNode)
                /\ ~HasRecord(scraped, AtNode) )
        /\ ( /\ C7_Candidate
             /\ dom[AtNode].text
                  \in { ClaimedWindow(ListOfTag(dom[AtNode].tag)).lo,
                        ClaimedWindow(ListOfTag(dom[AtNode].tag)).hi } )
           => scraped' = scraped ]_vars

\* a div of 999 characters without a class and a paragraph of 11 were
\* both emitted
C7_Witness ==
    /\ PassesDone
    /\ \E n, m \in DOMAIN dom :
          /\ dom[n].tag = "div" /\ dom[n].cls = "none" /\ dom[n].text = 999
          /\ dom[m].tag = "p" /\ dom[m].text = 11
          /\ HasRecord(scraped, n) /\ HasRecord(scraped, m)

----------------------------------------------------------------------------
(* What the claims about extract_endpoints_with_ai speak of.               *)

\* total_size when the filter returns
FinalSize(page_data) == RunFilter(FilterFrame(page_data)).total_size

\* the calls made for the page at url
CallsFor(url) == { c \in DOMAIN llm_calls : llm_calls[c].url = url }

InputsFor(url) == { c \in DOMAIN llm_inputs : llm_inputs[c].url = url }

EndpointsOf(url) ==
    { e \in DOMAIN all_endpoints : all_endpoints[e].source_page = url }

----------------------------------------------------------------------------
(* C9: a page whose total_size stays below the threshold of 100 gets the   *)
(* empty digest from the filter, no LLM call and no llm_input; and no page *)
(* gets more than one LLM call.                                            *)
C9_ThinPageSkipped ==
    \A url \in DOMAIN raw_pages :
        /\ FinalSize(raw_pages[url]) < min_size =>
              /\ FilterPageContent(raw_pages[url]) = <<>>
              /\ CallsFor(url) = {}
              /\ InputsFor(url) = {}
        /\ Cardinality(CallsFor(url)) <= 1
        /\ Cardinality(InputsFor(url)) = Cardinality(CallsFor(url))

\* the call returned after a page of 99 characters was passed without a
\* call and another page got its one call
C9_Witness ==
    /\ epc = "returned"
    /\ \E url \in DOMAIN raw_pages :
          /\ FinalSize(raw_pages[url]) = min_size - 1
          /\ CallsFor(url) = {}
    /\ \E url \in DOMAIN raw_pages : Cardinality(CallsFor(url)) = 1

----------------------------------------------------------------------------
\* the replies the claim lists: an API exception, invalid JSON, JSON that is
\* not a list, a list whose items lack a field
Malformed(reply) ==
    \/ reply.kind # "text"
    \/ Loaded(reply).type # "list"
    \/ \A k \in DOMAIN Loaded(reply).items :
          LET item == Loaded(reply).items[k] IN
          ~item.dict \/ ~item.name \/ item.curl = "absent"

(* C10: whatever the LLM replies on a page, the call is not aborted: a     *)
(* page with a malformed reply contributes no endpoints, every remaining   *)
(* page is processed and the endpoints of the other pages are returned.    *)
C10_ReplyNeverAbortsBatch ==
    /\ epc # "raised"
    /\ \A c \in DOMAIN llm_calls :
          Malformed(llm_calls[c].reply) => EndpointsOf(llm_calls[c].url) = {}

----------------------------------------------------------------------------
(* What the claims about autonomous_universal_agent speak of.              *)

\* the pages of the run that yielded an endpoint with its fields
YieldingPages ==
    { all_of.source_page :
        all_of \in { agent.extracted_endpoints[e] :
                      e \in { k \in DOMAIN agent.extracted_endpoints :
                                agent.extracted_endpoints[k].name } } }

(* C11: the run ends in a result carrying 'error' only when no page gave   *)
(* extractable content: a run in which a page yields endpoints completes,  *)
(* and a run that extracted no endpoint is reported as a failure without   *)
(* entering the connector-creation loop.                                   *)
C11_FailureOnlyWhenNothingExtracted ==
    /\ agent.pc = "loop" => agent.extracted_endpoints # <<>>
    /\ agent.pc = "done" =>
          /\ YieldingPages # {} => ~agent.result.error
          /\ agent.extracted_endpoints = <<>> =>
                agent.result.error /\ agent.iteration = 0

----------------------------------------------------------------------------
(* What the claims about the commands speak of.                            *)

\* the commands that left the extraction step: the entries of
\* extracted_endpoints and the curls sent with
\* create_connector_endpoint_under_group
CommandsOut ==
    { chat.scraped_endpoints[k].curl : k \in DOMAIN chat.scraped_endpoints }
    \cup { chat.dispatched[k].arguments.curl :
             k \in { j \in DOMAIN chat.dispatched :
                       chat.dispatched[j].function_name
                         = "create_connector_endpoint_under_group" } }

\* the group requests sent to the remote API
GroupRequests ==
    { chat.dispatched[k].arguments :
        k \in { j \in DOMAIN chat.dispatched :
                  chat.dispatched[j].function_name = "create_connector_group" } }

(* C12: every command that leaves the extraction step has its {identifier} *)
(* path segments rewritten to <<url.identifier>>: its URL path holds no    *)
(* curly-brace placeholder and no <<auth.*>> token.                        *)
C12_PathPlaceholdersMapped ==
    \A c \in CommandsOut :
        \A k \in DOMAIN c.url.path : c.url.path[k] \notin {"curly", "auth"}

(* C13: no command that leaves the extraction step or is sent to           *)
(* create_connector_endpoint_under_group carries an authorization-related  *)
(* header.                                                                 *)
C13_NoAuthHeaderInCommand ==
    \A c \in CommandsOut :
        \A k \in DOMAIN c.headers :
            c.headers[k] \notin {"Authorization", "X-API-Key"}

\* the three cases of a malformed candidate: a placeholder that is neither
\* <<url.x>> nor <<auth.x>> nor {x}, no method given, an empty URL
MalformedCommand(c) ==
    \/ \E k \in DOMAIN c.url.path : c.url.path[k] = "bad"
    \/ c.method = <<>>
    \/ c.url = EmptyUrl

\* the items of a list that are objects with the keys 'name' and 'curl'
Keyed(commands) ==
    { k \in DOMAIN commands :
        commands[k].dict /\ commands[k].name /\ commands[k].curl # NoCurl }

\* scrape_documentation has returned
ScrapeReturned == "commands" \in DOMAIN chat.returned

AuthTypes == {"oauth", "basic", "apiKey", "bearerToken", "customInput", "none"}

(* C15: every create_connector_group request sent to the remote API        *)
(* carries an auth whose type is one of oauth, basic, apiKey, bearerToken, *)
(* customInput, none, and whose details are not empty when the type is     *)
(* not none.                                                               *)
C15_GroupAuthValid ==
    \A r \in GroupRequests :
        /\ r.auth # NoAuth
        /\ r.auth.type \in AuthTypes
        /\ r.auth.type # "none" => r.auth.details # "empty"

----------------------------------------------------------------------------
(* What the claims about the page loop speak of.                           *)

\* the containers the passes give on a page taken alone
AloneContainers(d) == RunPasses(d, 1, {}, EmptyLists).containers

(* C16: the covered set is empty when the passes of a page start, only     *)
(* grows during the passes of the page, and is not carried to the next     *)
(* page: the containers stored for a page are those the passes give on     *)
(* that page alone, whatever pages were scraped before it.                 *)
C16_CoveredSetPerPage ==
    /\ [](/\ (crawl.pc = "passes" /\ visit = 0) => extracted_elements = {}
          /\ \A k \in DOMAIN crawl.scraped_pages :
                crawl.scraped_pages[k].containers
                  = AloneContainers(crawl.site.doms[crawl.scraped_pages[k].url]))
    /\ [][ (crawl.pc = "passes" /\ crawl'.pc = "passes")
             => extracted_elements \subseteq extracted_elements' ]_vars

\* two pages are stored: on the first a section was emitted and its
\* paragraph covered, on the second the same paragraph stands alone and
\* is emitted
C16_Witness ==
    /\ Len(crawl.scraped_pages) = 2
    /\ crawl.scraped_pages[1].containers.sections # <<>>
    /\ crawl.scraped_pages[1].containers.paragraphs = <<>>
    /\ crawl.site.doms[crawl.scraped_pages[2].url]
         = << Node("p", 0, 50, "none", FALSE) >>
    /\ crawl.scraped_pages[2].containers.paragraphs # <<>>
    /\ extracted_elements # {}

----------------------------------------------------------------------------
(* More about the filter.                                                  *)

(* C17: a second run of the filter on the page_data the first run was      *)
(* given yields the same digest: the call leaves page_data as it was, and  *)
(* the digest is a function of page_data alone.                            *)
C17_FilterRepeatable ==
    /\ [](filt.pc = "done" => FilterPageContent(filt.page_data) = filt.digest)
    /\ [][filt'.page_data = filt.page_data]_vars

\* a call has ended with a digest that holds a fragment whose text in
\* page_data has surrounding blanks
C17_Witness ==
    /\ filt.pc = "done"
    /\ filt.digest # <<>>
    /\ \E c \in BudgetedCats \cup {"code_blocks"} :
          \E k \in DOMAIN filt.page_data[c] :
             /\ filt.page_data[c][k].text.pad > 0
             /\ Appended(filt.digest, c, k)

\* the digest without its last piece
Body(s) == SubSeq(s, 1, Len(s) - 1)

\* the characters of the title line and of the fragments of s: what the
\* digest s charged to total_size
Charged(s) ==
    SizeOfCats(s, BudgetedCats \cup {"code_blocks"})
    + (IF s # <<>> /\ Head(s).cat = "title" THEN PieceLen(Head(s)) ELSE 0)

(* C18 as claimed: the number of the trailing marker is the final          *)
(* cumulative size, and it is the number of characters the digest carries  *)
(* before the marker.                                                      *)
C18_MarkerIsTextLength ==
    (filt.pc = "done" /\ filt.digest # <<>>) =>
        LET marker == filt.digest[Len(filt.digest)]
        IN  /\ marker = SizeMarker(filt.total_size)
            /\ marker.idx = StrLen(Body(filt.digest))

(* C18: every non-empty digest ends with the one marker of the digest,     *)
(* and its number is total_size, the quantity the budget tests compared    *)
(* with the ceiling: it counts the title line and the fragments, never a   *)
(* section header or separator, so the text before the marker is longer    *)
(* than the number by the headers it holds, and shorter by the fragments   *)
(* of sections that were left out.                                         *)
C18_MarkerIsTotalSize ==
    (filt.pc = "done" /\ filt.digest # <<>>) =>
        LET marker == filt.digest[Len(filt.digest)]
            body   == Body(filt.digest)
        IN  /\ marker = SizeMarker(filt.total_size)
            /\ \A j \in DOMAIN body : body[j].cat # "marker"
            /\ marker.idx >= Charged(body)
            /\ marker.idx > min_size
            /\ StrLen(body) >= Charged(body)

\* a digest whose marker number is not the length of the text before it
C18_Witness ==
    /\ filt.pc = "done"
    /\ filt.digest # <<>>
    /\ filt.digest[Len(filt.digest)].idx # StrLen(Body(filt.digest))
    /\ filt.digest[Len(filt.digest)].idx = filt.total_size

----------------------------------------------------------------------------
(* More about the container passes.                                        *)

\* a visit of the passes is about to be made
Visiting == visit < Len(PassOrder(dom))

\* the node is inside a container that has a record
UnderEmitted(n) ==
    \E a \in Ancestors(dom, n) :
        dom[a].tag \in ContainerTags /\ HasRecord(scraped, a)

(* C19: a span record is made only for a span that is not in the covered   *)
(* set when its visit comes, whose stripped text is longer than 2 and      *)
(* shorter than 50 characters and holds an API keyword; page_data's spans  *)
(* hold nothing else, and no span under a container that has a record.     *)
C19_SpanRule ==
    /\ [](\A k \in DOMAIN scraped.spans :
             LET r == scraped.spans[k] IN
             /\ dom[r.node].tag = "span"
             /\ r.text = dom[r.node].text
             /\ r.text > 2 /\ r.text < 50
             /\ dom[r.node].kw
             /\ ~UnderEmitted(r.node))
    /\ [][ (Visiting /\ Len(scraped'.spans) > Len(scraped.spans)) =>
             /\ scraped'.spans = Append(scraped.spans, Record(dom, AtNode))
             /\ ~IsIn(dom, AtNode, extracted_elements) ]_vars

\* a div with a keyword span in it, a keyword span of 49 characters and a
\* span without keyword: the passes are done and the only span record is
\* the second span's
C19_Witness ==
    /\ PassesDone
    /\ Len(dom) = 3
    /\ dom[1].tag = "div" /\ HasRecord(scraped, 1)
    /\ dom[2].tag = "span" /\ dom[2].parent = 1 /\ dom[2].kw
    /\ dom[3].tag = "span" /\ dom[3].parent = 0 /\ dom[3].kw /\ dom[3].text = 49
    /\ Len(scraped.spans) = 1 /\ scraped.spans[1].node = 3

(* C20: a div, paragraph, blockquote or span is skipped as covered only if *)
(* that very node is inside a container that has a record on the page; a   *)
(* node outside every such container is not skipped, even when its markup  *)
(* equals that of a covered node.                                          *)
C20_CoveredByIdentity ==
    [][ ( /\ Visiting
          /\ SkipsCovered(dom[AtNode].tag)
          /\ IsIn(dom, AtNode, extracted_elements) )
        => UnderEmitted(AtNode) ]_vars

----------------------------------------------------------------------------
(* What the claims about the tool loop speak of.                           *)

(* C21: no two entries of created_endpoints have the same name.            *)
C21_NoDuplicateEndpointName ==
    \A i, j \in DOMAIN agent.created_endpoints :
        i # j => agent.created_endpoints[i] # agent.created_endpoints[j]

----------------------------------------------------------------------------
(* What the claims about the saved group id speak of.                      *)

\* the step sent a request of this tool
SentBy(function_name) ==
    /\ chat'.runs = chat.runs + 1
    /\ chat'.dispatched # <<>>
    /\ chat'.dispatched[1].function_name = function_name

(* C22 as claimed: once a group id is saved, every later                   *)
(* create_connector_endpoint_under_group request carries it, and a failed  *)
(* create_connector_group call leaves the saved id as it was.              *)
C22_SavedIdAlwaysSent ==
    [][ /\ ( /\ SentBy("create_connector_endpoint_under_group")
             /\ chat.connector_group_id # "None" )
           => chat'.dispatched[1].arguments.connectorGroupId
                = chat.connector_group_id
        /\ chat'.returned.status \in {"no_token", "error"}
           => chat'.connector_group_id = chat.connector_group_id ]_vars

(* C22: a create_connector_endpoint_under_group request carries the id the *)
(* caller gave or else the saved id, and goes out without an id only when  *)
(* none is saved; the saved id changes only by a create_connector_group    *)
(* call whose result has no error, to the id of the result, or to None     *)
(* when the result holds no id.                                            *)
C22_SavedIdIsFallback ==
    [][ /\ SentBy("create_connector_endpoint_under_group") =>
             LET sent == chat'.dispatched[1].arguments.connectorGroupId IN
             /\ sent \in {"given", chat.connector_group_id}
             /\ sent = "None" => chat.connector_group_id = "None"
             /\ chat'.connector_group_id = chat.connector_group_id
        /\ chat'.connector_group_id # chat.connector_group_id =>
             /\ SentBy("create_connector_group")
             /\ chat'.returned.status \in {"g1", "g2", "no_id"}
             /\ chat'.returned.status \in {"g1", "g2"}
                   => chat'.connector_group_id = chat'.returned.status
             /\ chat'.returned.status = "no_id"
                   => chat'.connector_group_id = "None"
        /\ chat'.returned.status \in {"no_token", "error"}
             => chat'.connector_group_id = chat.connector_group_id ]_vars

\* a group id is saved and an endpoint request went out with the id the
\* caller gave
C22_Witness ==
    /\ chat.connector_group_id \in {"g1", "g2"}
    /\ chat.dispatched # <<>>
    /\ chat.dispatched[1].function_name = "create_connector_endpoint_under_group"
    /\ chat.dispatched[1].arguments.connectorGroupId = "given"

----------------------------------------------------------------------------
(* What the claims about the conversation speak of.                        *)

\* every assistant message with tool calls is directly followed by one
\* tool message per call, with the call's id, in the order of the calls
WellPaired(conv) ==
    \A i \in DOMAIN conv :
        LET ids == conv[i].tool_calls IN
        (conv[i].role = "assistant" /\ ids # <<>>) =>
            /\ i + Len(ids) <= Len(conv)
            /\ \A k \in DOMAIN ids :
                  /\ conv[i + k].role = "tool"
                  /\ conv[i + k].tool_call_id = ids[k]
            /\ i + Len(ids) < Len(conv) => conv[i + Len(ids) + 1].role # "tool"

(* C23: in every message list sent to the LLM, each assistant message      *)
(* with tool calls is directly followed by exactly one tool message per    *)
(* tool call, with matching id and in the same order.                      *)
C23_ToolMessagesPaired ==
    \A r \in DOMAIN chat.requests : WellPaired(chat.requests[r])

----------------------------------------------------------------------------
(* The fragments charged and the title.                                    *)

(* C24: every fragment whose length was added to total_size is in the      *)
(* returned digest: the number charged is the size of the title line and   *)
(* of the fragments the digest holds.                                      *)
C24_ChargedFragmentsPresent ==
    (filt.pc = "done" /\ filt.digest # <<>>) =>
        filt.total_size = Charged(Body(filt.digest))

\* the title holds one of the skip keywords
SkippedTitle(page_data) ==
    \E keyword \in skip_keywords : Contains(keyword, Lower(page_data.title))

\* the cumulative size of the page's content: what total_size comes to
\* when the blocks run on the page
ContentSize(page_data) ==
    LET head == Piece("title", 0, "# ", Text(0, Len(page_data.title)), "\n\n")
    IN  RunFilter([FilterFrame(page_data) EXCEPT
                      !.pc = "enter",
                      !.filtered_content = <<head>>,
                      !.total_size = PieceLen(head)]).total_size

(* C25 as claimed: the digest is empty only when the cumulative size of    *)
(* the page is at or below the threshold of 100 characters.                *)
C25_EmptyOnlyWhenThin ==
    (filt.pc = "done" /\ filt.digest = <<>>) =>
        ContentSize(filt.page_data) <= min_size

(* C25: the digest is empty exactly when the title holds one of the skip   *)
(* keywords, whatever the page holds, or the cumulative size is at or      *)
(* below the threshold of 100 characters.                                  *)
C25_EmptyWhenSkippedOrThin ==
    filt.pc = "done" =>
        /\ filt.digest = <<>> <=>
              \/ SkippedTitle(filt.page_data)
              \/ ContentSize(filt.page_data) <= min_size
        /\ SkippedTitle(filt.page_data) => filt.total_size = 0
        /\ ~SkippedTitle(filt.page_data) =>
              filt.total_size = ContentSize(filt.page_data)

\* a page titled Blog with a code block of 19983 characters got the empty
\* digest
C25_Witness ==
    /\ filt.pc = "done"
    /\ filt.digest = <<>>
    /\ SkippedTitle(filt.page_data)
    /\ filt.page_data.code_blocks # <<>>
    /\ ContentSize(filt.page_data) > max_size

----------------------------------------------------------------------------
(* What the claims about the fetches speak of.                             *)

(* C26: no url is fetched more than once during a run.                     *)
C26_NoUrlFetchedTwice ==
    \A i, j \in DOMAIN crawl.fetched :
        i # j => crawl.fetched[i] # crawl.fetched[j]

(* C27: the page loop ends; it makes at most max_pages fetch attempts,     *)
(* each of base_url or of a url of the base url's host, and returns at     *)
(* most max_pages pages.                                                   *)
C27_CrawlBounded ==
    /\ [](/\ Len(crawl.fetched) <= crawl.max_pages
          /\ Len(crawl.fetched) = crawl.page_count
          /\ \A k \in DOMAIN crawl.fetched :
                crawl.site.kinds[crawl.fetched[k]] = "page"
          /\ Len(crawl.scraped_pages) <= Len(crawl.fetched))
    /\ <>(crawl.pc = "done")

\* the run ended on the page count with urls left to visit, after a fetch
\* that failed, on a site with a link to another host
C27_Witness ==
    /\ crawl.pc = "done"
    /\ crawl.urls_to_visit # {}
    /\ Len(crawl.fetched) = crawl.max_pages
    /\ Len(crawl.scraped_pages) < Len(crawl.fetched)
    /\ \E u \in DOMAIN crawl.site.kinds :
          /\ crawl.site.kinds[u] = "other_host"
          /\ \E v \in crawl.visited_urls : u \in crawl.site.links[v]

(* C28: the tool loop sends at most 20 requests to the LLM and ends: it is *)
(* left at the first message without tool calls, at the first exception    *)
(* in an iteration, or when the iteration count reaches max_iterations,    *)
(* and once it is left no request goes to the LLM or to the remote API.    *)
C28_ToolLoopBounded ==
    /\ [](/\ agent.llm_requests <= max_iterations
          /\ agent.llm_requests = agent.iteration
          /\ agent.left = "exhausted" => agent.iteration = max_iterations
          /\ agent.pc = "final" => agent.left \in {"text", "raised"}
          /\ agent.pc = "loop" => agent.left = "no")
    /\ [][ (agent.left # "no" \/ agent.pc \in {"final", "done"}) =>
             /\ agent'.llm_requests = agent.llm_requests
             /\ agent'.dispatched = agent.dispatched
             /\ agent'.created_endpoints = agent.created_endpoints ]_vars
    /\ (agent.pc = "loop") ~> (agent.pc = "done")

\* a run whose loop made its 20 requests and created endpoints
C28_Witness ==
    /\ agent.pc = "done"
    /\ agent.left = "exhausted"
    /\ agent.llm_requests = max_iterations
    /\ agent.created_endpoints # <<>>

(* C29: scrape_documentation reports status "success" only when the        *)
(* extraction of fastn_function succeeded: whenever fastn_function returns *)
(* status "failed", the result of the tool has status "failed".            *)
C29_FailedExtractionReported ==
    (ScrapeReturned /\ chat.returned.fastn = "failed") =>
        chat.returned.status = "failed"

=============================================================================
